---- MODULE Spec2Model ----
(***************************************************************************)
(* Authorization and session lifecycle of the dashboard backend:           *)
(*   - refresh-token sessions (login, refresh with rotation, logout)       *)
(*     against the users/sessions tables (services/auth_service.py,        *)
(*     api/v1/auth.py, core/security.py);                                  *)
(*   - role permissions and path-prefix scoping of the storage endpoints   *)
(*     (core/permissions.py, api/v1/files.py).                             *)
(* Time is counted in ticks, TicksPerSec ticks to the second, because the  *)
(* JWT claims exp/iat are whole seconds while datetime.utcnow() and the    *)
(* sessions.expires_at column are finer than a second.                     *)
(* An Optional[...] value is a sequence: <<>> is None, <<x>> is x.         *)
(* A str that the code slices (paths, prefixes) is a sequence of           *)
(* one-character strings.                                                  *)
(***************************************************************************)
EXTENDS Integers, Sequences, FiniteSets, TLC

VARIABLES
    now,            \* the clock read by datetime.utcnow(), in ticks
    users,          \* rows of table users
    sessions,       \* rows of table sessions
    nextSessionId,  \* the serial sequence of sessions.id
    nextUserId,     \* the serial sequence of users.id
    pc,             \* per worker: where its request handler stands
    local,          \* per worker: the request and the handler's local variables
    resp,           \* per worker: the response of its last request (<<>> while running)
    rotated,        \* history: every refresh token a successful refresh was called with
    revoked,        \* history: every refresh token a successful logout was called with
    refused,        \* history: every refresh token refused for its owner (missing, inactive)
    served,         \* the number of requests received so far
    overlap,        \* history, per worker: a refresh with the same token succeeded meanwhile
    freq,           \* storage endpoints: the request (endpoint, current_user, path)
    fresp,          \* storage endpoints: its outcome (<<>> before the call)
    store,          \* the keys of the objects in the bucket
    signed,         \* history: the keys a presigned URL or POST was made for
    tz_aware        \* the engine reads DateTime(timezone=True) columns back timezone-aware

vars == <<now, users, sessions, nextSessionId, nextUserId, pc, local, resp, rotated,
          revoked, refused, served, overlap, freq, fresp, store, signed, tz_aware>>

sessionVars == <<now, users, sessions, nextSessionId, nextUserId, pc, local, resp,
                 rotated, revoked, refused, served, overlap, tz_aware>>

fileVars == <<freq, fresp, store, signed>>

----------------------------------------------------------------------------
(* Bounds and program constants *)

REFRESH_TOKEN_EXPIRE_DAYS == 7

ACCESS_TOKEN_EXPIRE_MINUTES == 30

TicksPerSec == 2

MaxSessions == 2

MaxRequests == 3

RefreshSecs == REFRESH_TOKEN_EXPIRE_DAYS * 24 * 60 * 60

RefreshTicks == RefreshSecs * TicksPerSec

AccessSecs == ACCESS_TOKEN_EXPIRE_MINUTES * 60

\* the clock is followed tick by tick over the first second, and again over the
\* second that starts one refresh lifetime later
ClockWindow == TicksPerSec

W1 == "w1"

Procs == {"w1", "w2"}

None == <<>>

Some(x) == <<x>>

\* timegm(dt.utctimetuple()) / int(dt.timestamp()): a datetime cut to whole seconds
Secs(t) == t \div TicksPerSec

Digits == <<"0", "1", "2", "3", "4", "5", "6", "7", "8", "9">>

\* str(n) for a non-negative int
RECURSIVE Str(_)
Str(n) == IF n < 10 THEN Digits[n + 1] ELSE Str(n \div 10) \o Digits[(n % 10) + 1]

----------------------------------------------------------------------------
(* core/security.py *)

\* what a call that can raise comes to: Raise(e) when it raises e, else Return(v)
Return(v) == [raised |-> "", value |-> v]

Raise(e) == [raised |-> e, value |-> None]

\* passwords passlib refuses: a str of more characters than its size limit
\* (4096), and a str holding a NUL character, which bcrypt cannot take
OversizedPasswords == {"secret repeated 1000 times"}

NulPasswords == {"secret\\0"}

\* the exception pwd_context.hash raises for the secret, "" when it hashes it:
\* the size is tested first, the NUL when the bcrypt handler computes the digest
pwd_context_hash_raises(secret) ==
    IF secret \in OversizedPasswords THEN "PasswordSizeError"
    ELSE IF secret \in NulPasswords THEN "NullPasswordError"
    ELSE ""

\* pwd_context.hash of a password it takes: a digest is the scheme's
\* identifier followed by what the salted hash stands for
get_password_hash(password) == <<"bcrypt", password>>

\* pwd_context.verify: a str no scheme of the context identifies raises
\* UnknownHashError; then the bcrypt handler tests the size of the secret,
\* parses the digest (one that is not well-formed raises) and, computing the
\* digest of the secret, refuses a NUL; all of them ValueError
pwd_context_verify(secret, hash) ==
    IF hash = <<>> \/ hash[1] # "bcrypt" THEN Raise("UnknownHashError")
    ELSE IF secret \in OversizedPasswords THEN Raise("PasswordSizeError")
    ELSE IF Len(hash) # 2 THEN Raise("MalformedHashError")
    ELSE IF secret \in NulPasswords THEN Raise("NullPasswordError")
    ELSE Return(hash = get_password_hash(secret))

\* no try around the call: what pwd_context.verify raises, verify_password raises
verify_password(plain_password, hashed_password) ==
    pwd_context_verify(plain_password, hashed_password)

\* the claims login and refresh put into both tokens
TokenData(user) == [sub |-> user.id, email |-> user.email, role |-> user.role]

\* faulty variant of create_access_token: it carries the refresh token's claims
create_access_token_as_refresh(data, t) ==
    [sub   |-> Str(data.sub),
     email |-> data.email,
     role  |-> data.role,
     exp   |-> Secs(t + RefreshTicks),
     iat   |-> Secs(t),
     type  |-> "refresh",
     sig   |-> "valid"]

create_access_token(data, t) ==
    [sub   |-> Str(data.sub),
     email |-> data.email,
     role  |-> data.role,
     exp   |-> Secs(t + AccessSecs * TicksPerSec),
     iat   |-> Secs(t),
     type  |-> "absent",
     sig   |-> "valid"]

create_refresh_token(data, t) ==
    [sub   |-> Str(data.sub),
     email |-> data.email,
     role  |-> data.role,
     exp   |-> Secs(t + RefreshTicks),
     iat   |-> Secs(t),
     type  |-> "refresh",
     sig   |-> "valid"]

\* a token string with a byte changed so that its signature no longer
\* verifies: a byte of the header or of the claims, or a character of the
\* signature changed in the bits that carry it
Tamper(token) == [token EXCEPT !.sig = "invalid"]

\* a token string whose last character is changed in its two low bits only:
\* the 32 bytes of an HS256 signature take 43 characters, the last of which
\* carries four bits; base64url decoding drops the other two, so the bytes
\* are the signature's and verify
TamperUnusedBits(token) == [token EXCEPT !.sig = "unused bits changed"]

\* a token string cut before its last dot: jws finds too few segments
Truncate(token) == [token EXCEPT !.sig = "segments"]

\* a token string whose header segment is no longer base64 of a JSON object
Garble(token) == [token EXCEPT !.sig = "encoding"]

\* a str holding a lone surrogate, which str.encode("utf-8") refuses
Surrogate(token) == [token EXCEPT !.sig = "surrogate"]

\* a token string whose header segment is base64 of JSON nested deeper than
\* the interpreter's recursion limit
NestHeader(token) == [token EXCEPT !.sig = "nested header"]

\* jose.exceptions: JWTError and the classes derived from it
JWTError == {"JWTError", "ExpiredSignatureError", "JWTClaimsError"}

\* jwt.decode(token, SECRET_KEY, algorithms=[ALGORITHM]): jws encodes the str
\* before its first try, so a lone surrogate raises UnicodeEncodeError; it
\* splits the string and decodes the header segment (a JWSError, raised again
\* as JWTError), and loads the header with json.loads under "except
\* ValueError", which a RecursionError passes; then the signature is verified
\* (JWSError again) and exp compared with the clock in whole seconds. The
\* claims returned are those of the signed token.
jwt_decode(token, t) ==
    IF token.sig = "surrogate" THEN Raise("UnicodeEncodeError")
    ELSE IF token.sig \in {"segments", "encoding"} THEN Raise("JWTError")
    ELSE IF token.sig = "nested header" THEN Raise("RecursionError")
    ELSE IF token.sig = "invalid" THEN Raise("JWTError")
    ELSE IF token.exp < Secs(t) THEN Raise("ExpiredSignatureError")
    ELSE Return([token EXCEPT !.sig = "valid"])

\* what decode_token comes to when an exception leaves it
Raised(e) == <<"raised", e>>

IsRaised(result) == Len(result) = 2

\* try: return jwt.decode(...) except JWTError: return None
decode_token(token, t) ==
    LET payload == jwt_decode(token, t) IN
    IF payload.raised = "" THEN Some(payload.value)
    ELSE IF payload.raised \in JWTError THEN None
    ELSE Raised(payload.raised)

----------------------------------------------------------------------------
(* str methods used on paths; a str is a sequence of one-character strings *)

\* the characters str.strip() removes: space, \t, \n, \r, \f (\x0c), and, written
\* by their escapes, \x0b, \x1c-\x1f, \x85, \xa0 and the Unicode spaces
Whitespace ==
    {" ", "\t", "\n", "\r", "\f", "\\x0b", "\\x1c", "\\x1d", "\\x1e", "\\x1f", "\\x85",
     "\\xa0", "\\u1680", "\\u2000", "\\u2001", "\\u2002", "\\u2003", "\\u2004",
     "\\u2005", "\\u2006", "\\u2007", "\\u2008", "\\u2009", "\\u200a", "\\u2028",
     "\\u2029", "\\u202f", "\\u205f", "\\u3000"}

RECURSIVE lstrip(_)
lstrip(s) == IF s # <<>> /\ Head(s) \in Whitespace THEN lstrip(Tail(s)) ELSE s

\* s.rstrip(): trailing whitespace removed
RECURSIVE rstrip_ws(_)
rstrip_ws(s) ==
    IF s # <<>> /\ s[Len(s)] \in Whitespace THEN rstrip_ws(SubSeq(s, 1, Len(s) - 1)) ELSE s

\* s.strip()
strip(s) == rstrip_ws(lstrip(s))

\* s.rstrip(c): every trailing c removed
RECURSIVE rstrip(_, _)
rstrip(s, c) ==
    IF s # <<>> /\ s[Len(s)] = c THEN rstrip(SubSeq(s, 1, Len(s) - 1), c) ELSE s

startswith(s, prefix) ==
    Len(prefix) <= Len(s) /\ SubSeq(s, 1, Len(prefix)) = prefix

Slash == <<"/">>

----------------------------------------------------------------------------
(* core/permissions.py *)

Roles == {"admin", "editor", "viewer", "external_viewer"}

\* ROLE_PERMISSIONS.get(role, [])
ROLE_PERMISSIONS(role) ==
    CASE role = "admin" -> {"*"}
      [] role = "editor" -> {"files:read", "files:write", "files:delete", "analytics:read"}
      [] role = "viewer" -> {"files:read", "analytics:read"}
      [] role = "external_viewer" -> {"files:read"}
      [] OTHER -> {}

\* faulty variant of has_permission: any role with a row in ROLE_PERMISSIONS is
\* granted every permission
has_permission_any_row(user, permission) ==
    ROLE_PERMISSIONS(user.role) # {}

has_permission(user, permission) ==
    LET user_permissions == ROLE_PERMISSIONS(user.role) IN
    IF "*" \in user_permissions THEN TRUE ELSE permission \in user_permissions

user_can_access_path(user, path_prefix) ==
    IF user.role = "admin" THEN TRUE
    ELSE LET allowed == strip(user.allowed_path_prefix) IN
         IF allowed = <<>> THEN TRUE
         ELSE LET path == rstrip(strip(path_prefix), "/") \o Slash
                  base == rstrip(allowed, "/") \o Slash
              IN  path = base \/ startswith(path, base)

\* faulty variant of require_permission: a missing identity is answered 403
require_permission_conflated(current_user, permission) ==
    IF current_user = None THEN 403
    ELSE IF ~has_permission(current_user[1], permission) THEN 403
    ELSE 200

\* the wrapper of require_permission(permission): the status it raises, or 200
\* when it goes on to call the endpoint
require_permission(current_user, permission) ==
    IF current_user = None THEN 401
    ELSE IF ~has_permission(current_user[1], permission) THEN 403
    ELSE 200

\* the wrapper of require_role(roles); roles is a set here (the code tests "in")
require_role(current_user, roles) ==
    IF current_user = None THEN 401
    ELSE IF current_user[1].role \notin roles THEN 403
    ELSE 200

----------------------------------------------------------------------------
(* core/s3_client.py and the bucket behind it *)

\* the most keys one list_objects_v2 response holds, and the MaxKeys the tree
\* listing asks for
S3PageMax == 1000

\* the cap of list_with_folders on the pages it reads
MaxPagesCap == 50

Min(a, b) == IF a < b THEN a ELSE b

Max(a, b) == IF a > b THEN a ELSE b

\* the code point of a character
Ord(c) ==
    CASE c = " " -> 32
      [] c = "/" -> 47
      [] c = "1" -> 49
      [] c = "a" -> 97
      [] c = "b" -> 98
      [] c = "f" -> 102

\* the order S3 lists keys in: by code point, a proper prefix first
RECURSIVE KeyLess(_, _)
KeyLess(k, l) ==
    IF k = <<>> THEN l # <<>>
    ELSE IF l = <<>> THEN FALSE
    ELSE IF k[1] # l[1] THEN Ord(k[1]) < Ord(l[1])
    ELSE KeyLess(Tail(k), Tail(l))

\* the keys in that order: the i-th is the one with i - 1 keys before it
Sorted(keys) ==
    LET before == [k \in keys |-> Cardinality({l \in keys : KeyLess(l, k)})]
    IN  [i \in 1..Cardinality(keys) |-> CHOOSE k \in keys : before[k] = i - 1]

Take(seq, n) == SubSeq(seq, 1, Min(n, Len(seq)))

Drop(seq, n) == SubSeq(seq, Min(n, Len(seq)) + 1, Len(seq))

endswith(str, c) == str # <<>> /\ str[Len(str)] = c

\* list_objects_v2(Prefix=prefix, MaxKeys=max_keys), first response: Contents
ListObjects(bucket, prefix, max_keys) ==
    Take(Sorted({k \in bucket : startswith(k, prefix)}), Min(max_keys, S3PageMax))

\* S3Client.list_files: the keys of the first response; s3_ok is FALSE when the
\* store answers with a ClientError, and the listing is then empty
s3_list_files(bucket, prefix, max_keys, s3_ok) ==
    IF s3_ok THEN ListObjects(bucket, prefix, max_keys) ELSE <<>>

\* what a key under prefix is listed as with Delimiter="/": the key itself, or
\* the CommonPrefix up to the first separator after the prefix
RolledUp(prefix, key) ==
    LET n    == Len(prefix)
        seps == {i \in (n + 1)..Len(key) : key[i] = "/"}
    IN  IF seps = {} THEN key
        ELSE SubSeq(key, 1, CHOOSE i \in seps : \A j \in seps : i <= j)

\* the entries of list_objects_v2(Prefix=prefix, Delimiter="/"), in order
DelimitedEntries(bucket, prefix) ==
    Sorted({RolledUp(prefix, k) : k \in {l \in bucket : startswith(l, prefix)}})

\* an entry is a CommonPrefix when the part after the prefix ends in the separator
IsCommonPrefix(prefix, entry) == Len(entry) > Len(prefix) /\ endswith(entry, "/")

\* the loop of list_with_folders: one response of at most page entries a turn,
\* until the pages are used up or there is no NextContinuationToken; the
\* request numbered fail_at raises a ClientError (0: none does), and what was
\* gathered so far is dropped for the empty listing of the except clause
RECURSIVE ListPages(_, _, _, _, _, _)
ListPages(list_prefix, entries, page, pages_left, fail_at, acc) ==
    IF pages_left = 0 THEN acc
    ELSE IF acc.pages + 1 = fail_at
    THEN [folders |-> <<>>, files |-> <<>>, pages |-> acc.pages + 1]
    ELSE LET response == Take(entries, page)
             rest     == Drop(entries, page)
             folders  == SelectSeq(response, LAMBDA e : IsCommonPrefix(list_prefix, e))
             files    == SelectSeq(response, LAMBDA e : ~IsCommonPrefix(list_prefix, e)
                                                        /\ ~endswith(e, "/"))
             next     == [folders |-> acc.folders \o folders,
                          files   |-> acc.files \o files,
                          pages   |-> acc.pages + 1]
         IN  IF rest = <<>> THEN next
             ELSE ListPages(list_prefix, rest, page, pages_left - 1, fail_at, next)

\* S3Client.list_with_folders; page is the number of entries the bucket puts
\* into one response, at most the MaxKeys asked for, and fail_at the number of
\* the request the store answers with a ClientError (0: none)
list_with_folders(bucket, prefix, max_keys, page, fail_at) ==
    LET list_prefix == IF prefix # <<>> /\ ~endswith(prefix, "/")
                       THEN rstrip(prefix, "/") \o Slash ELSE prefix
        max_pages   == Max(1, Min(MaxPagesCap, (max_keys + 999) \div 1000))
    IN  ListPages(list_prefix, DelimitedEntries(bucket, list_prefix),
                  Min(page, S3PageMax), max_pages, fail_at,
                  [folders |-> <<>>, files |-> <<>>, pages |-> 0])

----------------------------------------------------------------------------
(* api/v1/files.py *)

\* None when it raises 403, else the prefix handed to the listing
effective_prefix(current_user, prefix) ==
    LET allowed == strip(current_user.allowed_path_prefix) IN
    IF allowed = <<>> THEN Some(prefix)
    ELSE LET prefix_norm == rstrip(strip(prefix), "/") IN
         IF /\ prefix_norm # <<>>
            /\ ~startswith(prefix_norm \o Slash, rstrip(allowed, "/") \o Slash)
         THEN None
         ELSE IF prefix_norm = <<>> THEN Some(rstrip(allowed, "/") \o Slash)
         ELSE Some(prefix)

\* _check_path_access: TRUE when it raises 403
check_path_access_denied(current_user, key) == ~user_can_access_path(current_user, key)

\* UploadFile.filename of the uploads considered
FileName == <<"f">>

\* the key upload_file builds from the form field path (None and "" alike)
upload_key(current_user, path) ==
    LET allowed == strip(current_user.allowed_path_prefix) IN
    IF path # <<>> THEN rstrip(strip(path), "/") \o Slash \o FileName
    ELSE IF allowed # <<>> THEN rstrip(allowed, "/") \o Slash \o FileName
    ELSE <<Str(current_user.id)>> \o Slash \o FileName

\* create_folder: the key it puts, and its own scope test (TRUE when it raises 403)
folder_path(path) == rstrip(strip(path), "/") \o Slash

create_folder_denied(current_user, path) ==
    LET allowed == strip(current_user.allowed_path_prefix) IN
    allowed # <<>> /\ ~startswith(folder_path(path), rstrip(allowed, "/") \o Slash)

----------------------------------------------------------------------------
(* The tables *)

Emails == {"a@x.com", "b@x.com", "nobody@x.com"}

\* LoginRequest.password is any str: the users' passwords, and the ones
\* passlib refuses
Passwords == {"secret", "hunter2"} \cup NulPasswords \cup OversizedPasswords

SeedUsers ==
    { [id |-> 1, email |-> "a@x.com", hashed_password |-> get_password_hash("secret"),
       role |-> "viewer", is_active |-> TRUE, last_login_at |-> None],
      [id |-> 2, email |-> "b@x.com", hashed_password |-> get_password_hash("hunter2"),
       role |-> "editor", is_active |-> TRUE, last_login_at |-> None] }

\* select(User).where(User.email == email) ... scalar_one_or_none()
UserByEmail(email) ==
    IF \E u \in users : u.email = email
    THEN Some(CHOOSE u \in users : u.email = email) ELSE None

\* select(User).where(User.id == user_id) ... scalar_one_or_none()
UserById(id) ==
    IF \E u \in users : u.id = id
    THEN Some(CHOOSE u \in users : u.id = id) ELSE None

get_session_by_token(refresh_token) ==
    IF \E s \in sessions : s.refresh_token = refresh_token
    THEN Some(CHOOSE s \in sessions : s.refresh_token = refresh_token) ELSE None

\* faulty variant of refresh_token_taken: the column has no unique constraint
refresh_token_unconstrained(id, token) == FALSE

\* unique=True on sessions.refresh_token: the INSERT or UPDATE of row id with
\* this token is refused because another row holds it
refresh_token_taken(id, token) ==
    \E s \in sessions : s.id # id /\ s.refresh_token = token

SessionById(id) ==
    IF \E s \in sessions : s.id = id
    THEN Some(CHOOSE s \in sessions : s.id = id) ELSE None

----------------------------------------------------------------------------
(* Requests and responses *)

NoLocal ==
    [op |-> "none", email |-> "", password |-> "", tok |-> None, sess |-> None,
     user |-> None, new_access |-> None, new_refresh |-> None, new_expires |-> 0,
     role |-> "", caller |-> None, target |-> 0, body |-> None, payload |-> None,
     stamp |-> 0]

Response(status, detail, access, refresh) ==
    Some([status |-> status, detail |-> detail,
          access_token |-> access, refresh_token |-> refresh])

LoginFailed == Response(401, "Incorrect email or password", None, None)

RefreshFailed == Response(401, "Invalid or expired refresh token", None, None)

LogoutFailed == Response(400, "Invalid refresh token", None, None)

LoggedOut == Response(200, "Logged out successfully", None, None)

ServerError == Response(500, "Internal Server Error", None, None)

TokenPair(access, refresh) == Response(200, "", Some(access), Some(refresh))

\* the handler returns: its local variables go, the request stays on record
Finish(p, r) ==
    /\ pc' = [pc EXCEPT ![p] = "idle"]
    /\ resp' = [resp EXCEPT ![p] = r]
    /\ local' = [local EXCEPT ![p] =
                    [NoLocal EXCEPT !.op = local[p].op, !.email = local[p].email,
                                    !.password = local[p].password, !.tok = local[p].tok,
                                    !.role = local[p].role, !.caller = local[p].caller,
                                    !.target = local[p].target, !.body = local[p].body]]

RefreshStages == {"r_lookup", "r_delete", "r_user", "r_commit", "r_refresh"}

\* token strings a caller presents: the refresh tokens in force, those already
\* exchanged, what a worker's last request sent and its response returned, and
\* copies of the ones in force that are tampered with or given a nested header
Presentable ==
    {s.refresh_token : s \in sessions}
    \cup rotated
    \cup UNION {IF resp[p] # None /\ resp[p][1].access_token # None
                THEN {resp[p][1].access_token[1]} ELSE {} : p \in Procs}
    \cup UNION {IF local[p].tok # None THEN {local[p].tok[1]} ELSE {} : p \in Procs}
    \cup {Tamper(s.refresh_token) : s \in sessions}
    \cup {NestHeader(s.refresh_token) : s \in sessions}

----------------------------------------------------------------------------
(* api/v1/auth.py login, AuthService.authenticate_user, AuthService.create_session *)

ReceiveLogin(p, email, password) ==
    /\ pc[p] = "idle"
    /\ nextSessionId <= MaxSessions
    /\ pc' = [pc EXCEPT ![p] = "l_auth"]
    /\ local' = [local EXCEPT ![p] =
                    [NoLocal EXCEPT !.op = "login", !.email = email, !.password = password]]
    /\ resp' = [resp EXCEPT ![p] = None]
    /\ served < MaxRequests
    /\ served' = served + 1
    /\ overlap' = [overlap EXCEPT ![p] = FALSE]
    /\ UNCHANGED <<now, users, sessions, nextSessionId, nextUserId, rotated, revoked, refused, fileVars, tz_aware>>

\* User if authenticated, None otherwise; it raises what verify_password raises
authenticate_user(email, password) ==
    LET user == UserByEmail(email) IN
    IF user = None THEN Return(None)
    ELSE LET verified == verify_password(password, user[1].hashed_password) IN
         IF verified.raised # "" THEN Raise(verified.raised)
         ELSE IF ~verified.value THEN Return(None)
         ELSE IF ~user[1].is_active THEN Return(None)
         ELSE Return(user)

LoginAuth(p) ==
    /\ pc[p] = "l_auth"
    /\ LET authenticated == authenticate_user(local[p].email, local[p].password)
           user          == authenticated.value
       IN
       IF authenticated.raised # ""
       THEN /\ Finish(p, ServerError)
       ELSE IF user = None
       THEN /\ Finish(p, LoginFailed)
       ELSE /\ pc' = [pc EXCEPT ![p] = "l_commit"]
            /\ local' = [local EXCEPT ![p].user = user, ![p].stamp = now]
            /\ UNCHANGED resp
    /\ UNCHANGED <<now, users, sessions, nextSessionId, nextUserId, rotated, revoked, refused, overlap, served, fileVars, tz_aware>>

\* the row create_session adds for user at time t
NewSession(user, t) ==
    [id            |-> nextSessionId,
     user_id       |-> user.id,
     refresh_token |-> create_refresh_token(TokenData(user), t),
     expires_at    |-> t + RefreshTicks]

\* login and create_session up to "await db.commit()". The clock was read when
\* authenticate_user returned (stamp): user.last_login_at, the token's iat/exp
\* and expires_at are of that time. One commit flushes the UPDATE of the user
\* and the INSERT of the session; a vanished user row or a duplicate
\* refresh_token aborts it and rolls both back.
LoginCommit(p) ==
    /\ pc[p] = "l_commit"
    /\ LET user == local[p].user[1]
           row  == NewSession(user, local[p].stamp)
       IN
       IF \/ UserById(user.id) = None
          \/ refresh_token_taken(row.id, row.refresh_token)
       THEN /\ Finish(p, ServerError)
            /\ nextSessionId' = IF UserById(user.id) = None
                                THEN nextSessionId ELSE nextSessionId + 1
            /\ UNCHANGED <<users, sessions>>
       ELSE /\ users' = {IF u.id = user.id
                         THEN [u EXCEPT !.last_login_at = Some(local[p].stamp)] ELSE u
                         : u \in users}
            /\ sessions' = sessions \cup {row}
            /\ nextSessionId' = nextSessionId + 1
            /\ pc' = [pc EXCEPT ![p] = "l_refresh"]
            /\ local' = [local EXCEPT ![p].sess = Some(row)]
            /\ UNCHANGED resp
    /\ UNCHANGED <<now, nextUserId, rotated, revoked, refused, overlap, served, fileVars, tz_aware>>

\* "await db.refresh(session)": the row is read again by primary key, which
\* raises when it is gone; then login mints the access token and answers with
\* the refresh token of the row as read
LoginReload(p) ==
    /\ pc[p] = "l_refresh"
    /\ LET current == SessionById(local[p].sess[1].id)
           access  == create_access_token(TokenData(local[p].user[1]), now)
       IN
       IF current = None
       THEN Finish(p, ServerError)
       ELSE Finish(p, TokenPair(access, current[1].refresh_token))
    /\ UNCHANGED <<now, users, sessions, nextSessionId, nextUserId, rotated, revoked, refused,
                   overlap, served, fileVars, tz_aware>>

----------------------------------------------------------------------------
(* api/v1/auth.py refresh_token, AuthService.refresh_access_token *)

ReceiveRefresh(p, token) ==
    /\ pc[p] = "idle"
    /\ pc' = [pc EXCEPT ![p] = "r_lookup"]
    /\ local' = [local EXCEPT ![p] =
                    [NoLocal EXCEPT !.op = "refresh", !.tok = Some(token),
                                    !.payload = decode_token(token, now)]]
    /\ resp' = [resp EXCEPT ![p] = None]
    /\ served < MaxRequests
    /\ served' = served + 1
    /\ overlap' = [overlap EXCEPT ![p] = FALSE]
    /\ UNCHANGED <<now, users, sessions, nextSessionId, nextUserId, rotated, revoked, refused, fileVars, tz_aware>>

\* the type check on the payload decode_token returned when the request came
\* in (ReceiveRefresh), "await get_session_by_token", and the expiry test at
\* the time the row arrives; comparing a timezone-aware expires_at with the
\* naive datetime.utcnow() raises TypeError
RefreshLookup(p) ==
    /\ pc[p] = "r_lookup"
    /\ LET token   == local[p].tok[1]
           payload == local[p].payload
           session == get_session_by_token(token)
       IN
       IF IsRaised(payload)
       THEN Finish(p, ServerError)
       ELSE IF payload = None \/ payload[1].type # "refresh"
       THEN Finish(p, RefreshFailed)
       ELSE IF session = None
       THEN Finish(p, RefreshFailed)
       ELSE IF tz_aware
       THEN Finish(p, ServerError)
       ELSE /\ pc' = [pc EXCEPT ![p] =
                        IF session[1].expires_at < now THEN "r_delete" ELSE "r_user"]
            /\ local' = [local EXCEPT ![p].sess = session]
            /\ UNCHANGED resp
    /\ UNCHANGED <<now, users, sessions, nextSessionId, nextUserId, rotated, revoked, refused, overlap, served, fileVars, tz_aware>>

\* delete_session(db, session): DELETE ... WHERE id; commit; return None
RefreshDeleteExpired(p) ==
    /\ pc[p] = "r_delete"
    /\ sessions' = {s \in sessions : s.id # local[p].sess[1].id}
    /\ Finish(p, RefreshFailed)
    /\ UNCHANGED <<now, users, nextSessionId, nextUserId, rotated, revoked, refused, overlap, served, fileVars, tz_aware>>

\* faulty variant of RefreshLoadUser: the owner's is_active is not looked at
RefreshLoadUser_any_owner(p) ==
    /\ pc[p] = "r_user"
    /\ LET user == UserById(local[p].sess[1].user_id) IN
       IF user = None
       THEN /\ Finish(p, RefreshFailed)
            /\ refused' = refused \cup {local[p].tok[1]}
       ELSE /\ pc' = [pc EXCEPT ![p] = "r_commit"]
            /\ local' = [local EXCEPT
                           ![p].user = user,
                           ![p].new_access = Some(create_access_token(TokenData(user[1]), now)),
                           ![p].new_refresh = Some(create_refresh_token(TokenData(user[1]), now)),
                           ![p].new_expires = now + RefreshTicks,
                           ![p].stamp = now]
            /\ UNCHANGED <<resp, refused>>
    /\ UNCHANGED <<now, users, sessions, nextSessionId, nextUserId, rotated, revoked, overlap, served, fileVars, tz_aware>>

\* select the owner; refuse a missing or inactive one; else mint both tokens
\* and set them on the loaded session object
RefreshLoadUser(p) ==
    /\ pc[p] = "r_user"
    /\ LET user == UserById(local[p].sess[1].user_id) IN
       IF user = None \/ ~user[1].is_active
       THEN /\ Finish(p, RefreshFailed)
            /\ refused' = refused \cup {local[p].tok[1]}
       ELSE /\ pc' = [pc EXCEPT ![p] = "r_commit"]
            /\ local' = [local EXCEPT
                           ![p].user = user,
                           ![p].new_access = Some(create_access_token(TokenData(user[1]), now)),
                           ![p].new_refresh = Some(create_refresh_token(TokenData(user[1]), now)),
                           ![p].new_expires = now + RefreshTicks,
                           ![p].stamp = now]
            /\ UNCHANGED <<resp, refused>>
    /\ UNCHANGED <<now, users, sessions, nextSessionId, nextUserId, rotated, revoked, overlap, served, fileVars, tz_aware>>

\* faulty variant of RotatedRow: the expiry is not written
RotatedRow_keep_expiry(row, loaded, new_refresh, new_expires) ==
    [row EXCEPT
       !.refresh_token = IF new_refresh # loaded.refresh_token THEN new_refresh ELSE @]

\* the row the flush of the mutated session object leaves: UPDATE sessions SET
\* <the attributes whose value differs from the loaded one> WHERE id = <loaded id>
RotatedRow(row, loaded, new_refresh, new_expires) ==
    [row EXCEPT
       !.refresh_token = IF new_refresh # loaded.refresh_token THEN new_refresh ELSE @,
       !.expires_at    = IF new_expires # loaded.expires_at THEN new_expires ELSE @]

\* db.add(session); "await db.commit()": the UPDATE goes by primary key, whatever
\* token the row holds by now; no matched row or a duplicate refresh_token
\* aborts it; nothing is written when no attribute changed
RefreshCommit(p) ==
    /\ pc[p] = "r_commit"
    /\ LET loaded  == local[p].sess[1]
           newTok  == local[p].new_refresh[1]
           newExp  == local[p].new_expires
           dirty   == newTok # loaded.refresh_token \/ newExp # loaded.expires_at
           current == SessionById(loaded.id)
       IN
       IF dirty /\ ( \/ current = None
                     \/ /\ newTok # loaded.refresh_token
                        /\ refresh_token_taken(loaded.id, newTok) )
       THEN /\ Finish(p, ServerError)
            /\ UNCHANGED sessions
       ELSE /\ sessions' = IF dirty
                           THEN {IF s.id = loaded.id
                                 THEN RotatedRow(s, loaded, newTok, newExp) ELSE s
                                 : s \in sessions}
                           ELSE sessions
            /\ pc' = [pc EXCEPT ![p] = "r_refresh"]
            /\ UNCHANGED <<local, resp>>
    /\ UNCHANGED <<now, users, nextSessionId, nextUserId, rotated, revoked, refused, overlap,
                   fileVars, served, tz_aware>>

\* "await db.refresh(session)": the row is read again by primary key, which
\* raises when it is gone; then the tokens minted before the commit are returned
RefreshReload(p) ==
    /\ pc[p] = "r_refresh"
    /\ IF SessionById(local[p].sess[1].id) = None
       THEN /\ Finish(p, ServerError)
            /\ UNCHANGED <<rotated, overlap>>
       ELSE /\ rotated' = rotated \cup {local[p].tok[1]}
            /\ overlap' = [q \in Procs |->
                             IF /\ q # p
                                /\ pc[q] \in RefreshStages
                                /\ local[q].tok = local[p].tok
                             THEN TRUE ELSE overlap[q]]
            /\ Finish(p, TokenPair(local[p].new_access[1], local[p].new_refresh[1]))
    /\ UNCHANGED <<now, users, sessions, nextSessionId, nextUserId, revoked, refused,
                   fileVars, served, tz_aware>>

----------------------------------------------------------------------------
(* api/v1/auth.py logout, AuthService.logout *)

ReceiveLogout(p, token) ==
    /\ pc[p] = "idle"
    /\ pc' = [pc EXCEPT ![p] = "o_lookup"]
    /\ local' = [local EXCEPT ![p] = [NoLocal EXCEPT !.op = "logout", !.tok = Some(token)]]
    /\ resp' = [resp EXCEPT ![p] = None]
    /\ served < MaxRequests
    /\ served' = served + 1
    /\ overlap' = [overlap EXCEPT ![p] = FALSE]
    /\ UNCHANGED <<now, users, sessions, nextSessionId, nextUserId, rotated, revoked, refused, fileVars, tz_aware>>

LogoutLookup(p) ==
    /\ pc[p] = "o_lookup"
    /\ LET session == get_session_by_token(local[p].tok[1]) IN
       IF session = None
       THEN Finish(p, LogoutFailed)
       ELSE /\ pc' = [pc EXCEPT ![p] = "o_delete"]
            /\ local' = [local EXCEPT ![p].sess = session]
            /\ UNCHANGED resp
    /\ UNCHANGED <<now, users, sessions, nextSessionId, nextUserId, rotated, revoked, refused, overlap, served, fileVars, tz_aware>>

LogoutDelete(p) ==
    /\ pc[p] = "o_delete"
    /\ sessions' = {s \in sessions : s.id # local[p].sess[1].id}
    /\ revoked' = revoked \cup {local[p].tok[1]}
    /\ Finish(p, LoggedOut)
    /\ UNCHANGED <<now, users, nextSessionId, nextUserId, rotated, refused, overlap, served, fileVars, tz_aware>>

----------------------------------------------------------------------------
(* The environment: the clock, and an admin's PUT /users/{id} (UserService.update_user) *)

Tick ==
    /\ (now % RefreshTicks) < ClockWindow
    /\ now' = now + 1
    /\ UNCHANGED <<users, sessions, nextSessionId, nextUserId, pc, local, resp, rotated, revoked, refused,
                   overlap, served, fileVars, tz_aware>>

\* REFRESH_TOKEN_EXPIRE_DAYS pass
Sleep ==
    /\ now < RefreshTicks
    /\ now' = now + RefreshTicks
    /\ UNCHANGED <<users, sessions, nextSessionId, nextUserId, pc, local, resp, rotated, revoked, refused,
                   overlap, served, fileVars, tz_aware>>

\* update_user with only is_active set
SetActive(id, active) ==
    /\ \E u \in users : u.id = id /\ u.is_active # active
    /\ users' = {IF u.id = id THEN [u EXCEPT !.is_active = active] ELSE u : u \in users}
    /\ UNCHANGED <<now, sessions, nextSessionId, nextUserId, pc, local, resp, rotated, revoked, refused,
                   overlap, served, fileVars, tz_aware>>

Env ==
    \/ Tick
    \/ Sleep
    \/ \E id \in {u.id : u \in users}, active \in BOOLEAN : SetActive(id, active)

----------------------------------------------------------------------------
(* api/v1/auth.py signup, api/v1/users.py create_user, update_user and *)
(* delete_user, services/user_service.py                               *)

EmailTaken == Response(409, "Email already registered", None, None)

Created == Response(201, "", None, None)

NoContent == Response(204, "", None, None)

\* POST /signup; role stands for a "role" key the client adds to the body
ReceiveSignup(p, email, password, role) ==
    /\ pc[p] = "idle"
    /\ pc' = [pc EXCEPT ![p] = "c_check"]
    /\ local' = [local EXCEPT ![p] = [NoLocal EXCEPT !.op = "signup", !.email = email,
                                                     !.password = password, !.role = role]]
    /\ resp' = [resp EXCEPT ![p] = None]
    /\ served < MaxRequests
    /\ served' = served + 1
    /\ overlap' = [overlap EXCEPT ![p] = FALSE]
    /\ UNCHANGED <<now, users, sessions, nextSessionId, nextUserId, rotated, revoked, refused, fileVars, tz_aware>>

\* POST /users as current_user (None: no authenticated identity) with the
\* UserCreate user_in of the body
ReceiveCreateUser(p, current_user, user_in) ==
    /\ pc[p] = "idle"
    /\ pc' = [pc EXCEPT ![p] = "c_check"]
    /\ local' = [local EXCEPT ![p] = [NoLocal EXCEPT !.op = "create_user",
                                                     !.caller = current_user,
                                                     !.email = user_in.email,
                                                     !.password = user_in.password,
                                                     !.role = user_in.role,
                                                     !.body = Some(user_in)]]
    /\ resp' = [resp EXCEPT ![p] = None]
    /\ served < MaxRequests
    /\ served' = served + 1
    /\ overlap' = [overlap EXCEPT ![p] = FALSE]
    /\ UNCHANGED <<now, users, sessions, nextSessionId, nextUserId, rotated, revoked, refused, fileVars, tz_aware>>

\* SignupRequest keeps email and password of the body and drops every other key
SignupRequest(body) == [email |-> body.email, password |-> body.password]

\* faulty variant of signup_user_create: the role is taken from the body
signup_user_create_body_role(body) ==
    [email     |-> SignupRequest(body).email,
     password  |-> SignupRequest(body).password,
     role      |-> body.role,
     is_active |-> TRUE]

\* the UserCreate signup hands to UserService.create_user
signup_user_create(body) ==
    [email     |-> SignupRequest(body).email,
     password  |-> SignupRequest(body).password,
     role      |-> "viewer",
     is_active |-> TRUE]

\* the UserCreate worker p's endpoint hands to UserService.create_user: the one
\* signup builds, or the body of POST /users as it is
UserIn(p) ==
    IF local[p].op = "signup"
    THEN signup_user_create([email    |-> local[p].email,
                             password |-> local[p].password,
                             role     |-> local[p].role])
    ELSE local[p].body[1]

\* the row UserService.create_user adds for user_in
create_user(user_in) ==
    [id              |-> nextUserId,
     email           |-> user_in.email,
     hashed_password |-> get_password_hash(user_in.password),
     role            |-> user_in.role,
     is_active       |-> user_in.is_active,
     last_login_at   |-> None]

\* faulty variant of email_taken: the column is not declared unique
email_unconstrained(id, email) == FALSE

\* unique=True on users.email: a row other than id holds the email
email_taken(id, email) == \E u \in users : u.id # id /\ u.email = email

\* the guard require_role(["admin"]) of POST /users (signup has none), then
\* UserService.create_user, get_user_by_email: 409 when the email is registered
CreateUserCheck(p) ==
    /\ pc[p] = "c_check"
    /\ LET guard == IF local[p].op = "signup" THEN 200
                    ELSE require_role(local[p].caller, {"admin"})
       IN
       IF guard = 401
       THEN Finish(p, Response(401, "Authentication required", None, None))
       ELSE IF guard = 403
       THEN Finish(p, Response(403, "Role required: admin", None, None))
       ELSE IF UserByEmail(UserIn(p).email) # None
       THEN Finish(p, EmailTaken)
       ELSE /\ pc' = [pc EXCEPT ![p] = "c_commit"]
            /\ UNCHANGED <<local, resp>>
    /\ UNCHANGED <<now, users, sessions, nextSessionId, nextUserId, rotated, revoked, refused, overlap,
                   served, fileVars, tz_aware>>

\* UserService.create_user, User(...), db.add and db.commit: a password that
\* get_password_hash raises on ends the request before anything is added;
\* else the INSERT, which draws the next value of the id sequence and which the
\* unique index refuses when the email was registered since the test; the
\* value drawn is spent either way
CreateUserCommit(p) ==
    /\ pc[p] = "c_commit"
    /\ LET user == create_user(UserIn(p)) IN
       IF pwd_context_hash_raises(UserIn(p).password) # ""
       THEN /\ Finish(p, ServerError)
            /\ UNCHANGED <<users, nextUserId>>
       ELSE IF email_taken(user.id, user.email)
       THEN /\ Finish(p, ServerError)
            /\ nextUserId' = nextUserId + 1
            /\ UNCHANGED users
       ELSE /\ users' = users \cup {user}
            /\ nextUserId' = nextUserId + 1
            /\ pc' = [pc EXCEPT ![p] = "c_refresh"]
            /\ local' = [local EXCEPT ![p].user = Some(user)]
            /\ UNCHANGED resp
    /\ UNCHANGED <<now, sessions, nextSessionId, rotated, revoked, refused, overlap, served, fileVars, tz_aware>>

\* UserService.create_user, db.refresh(user): the row is read again by its id,
\* which raises when it was deleted since the commit
CreateUserReload(p) ==
    /\ pc[p] = "c_refresh"
    /\ IF UserById(local[p].user[1].id) = None
       THEN Finish(p, ServerError)
       ELSE Finish(p, Created)
    /\ UNCHANGED <<now, users, sessions, nextSessionId, nextUserId, rotated, revoked, refused, overlap,
                   served, fileVars, tz_aware>>

\* PUT /users/{user_id} as current_user with the UserUpdate user_in
ReceiveUpdateUser(p, current_user, user_id, user_in) ==
    /\ pc[p] = "idle"
    /\ pc' = [pc EXCEPT ![p] = "u_load"]
    /\ local' = [local EXCEPT ![p] = [NoLocal EXCEPT !.op = "update_user",
                                                     !.caller = current_user,
                                                     !.target = user_id,
                                                     !.body = Some(user_in)]]
    /\ resp' = [resp EXCEPT ![p] = None]
    /\ served < MaxRequests
    /\ served' = served + 1
    /\ overlap' = [overlap EXCEPT ![p] = FALSE]
    /\ UNCHANGED <<now, users, sessions, nextSessionId, nextUserId, rotated, revoked, refused, fileVars, tz_aware>>

\* the guard require_role(["admin"]) and get_user_by_id of the endpoint
UpdateLoad(p) ==
    /\ pc[p] = "u_load"
    /\ LET guard == require_role(local[p].caller, {"admin"})
           user  == UserById(local[p].target)
       IN
       IF guard = 401
       THEN Finish(p, Response(401, "Authentication required", None, None))
       ELSE IF guard = 403
       THEN Finish(p, Response(403, "Role required: admin", None, None))
       ELSE IF user = None
       THEN Finish(p, Response(404, "User not found", None, None))
       ELSE /\ pc' = [pc EXCEPT ![p] = "u_check"]
            /\ local' = [local EXCEPT ![p].user = user]
            /\ UNCHANGED resp
    /\ UNCHANGED <<now, users, sessions, nextSessionId, nextUserId, rotated, revoked, refused, overlap,
                   served, fileVars, tz_aware>>

\* UserService.update_user: a new email is looked up, 409 when another user has it
UpdateCheck(p) ==
    /\ pc[p] = "u_check"
    /\ LET user    == local[p].user[1]
           user_in == local[p].body[1]
           existing == UserByEmail(user_in.email[1])
       IN
       IF /\ user_in.email # None
          /\ user_in.email[1] # user.email
          /\ existing # None
          /\ existing[1].id # user.id
       THEN Finish(p, EmailTaken)
       ELSE /\ pc' = [pc EXCEPT ![p] = "u_commit"]
            /\ UNCHANGED <<local, resp>>
    /\ UNCHANGED <<now, users, sessions, nextSessionId, nextUserId, rotated, revoked, refused, overlap,
                   served, fileVars, tz_aware>>

\* the attributes update_user assigns to the loaded user: an attribute the
\* UserUpdate leaves None, or sets to the value loaded, is not written
UpdatedRow(row, loaded, user_in) ==
    [row EXCEPT
        !.email = IF user_in.email # None /\ user_in.email[1] # loaded.email
                  THEN user_in.email[1] ELSE @,
        !.role = IF user_in.role # None /\ user_in.role[1] # loaded.role
                 THEN user_in.role[1] ELSE @,
        !.is_active = IF user_in.is_active # None /\ user_in.is_active[1] # loaded.is_active
                      THEN user_in.is_active[1] ELSE @,
        !.hashed_password = IF user_in.password # None
                            THEN get_password_hash(user_in.password[1]) ELSE @]

\* the session has something to flush: update_user changed an attribute of the
\* loaded user (a password is hashed with a new salt, so setting one is a change)
Dirty(loaded, user_in) ==
    \/ user_in.email # None /\ user_in.email[1] # loaded.email
    \/ user_in.role # None /\ user_in.role[1] # loaded.role
    \/ user_in.is_active # None /\ user_in.is_active[1] # loaded.is_active
    \/ user_in.password # None

\* UserService.update_user, the assignments and db.commit: a password that
\* get_password_hash raises on ends the request; else the UPDATE of the row
\* with the user's id, which fails when the row is gone and which the unique
\* index refuses when another row holds the new email; with nothing changed
\* there is no UPDATE
UpdateCommit(p) ==
    /\ pc[p] = "u_commit"
    /\ LET loaded  == local[p].user[1]
           user_in == local[p].body[1]
           row     == UserById(loaded.id)[1]
           updated == UpdatedRow(row, loaded, user_in)
       IN
       IF user_in.password # None /\ pwd_context_hash_raises(user_in.password[1]) # ""
       THEN /\ Finish(p, ServerError)
            /\ UNCHANGED users
       ELSE IF ~Dirty(loaded, user_in)
       THEN /\ pc' = [pc EXCEPT ![p] = "u_refresh"]
            /\ UNCHANGED <<users, local, resp>>
       ELSE IF UserById(loaded.id) = None
       THEN /\ Finish(p, ServerError)
            /\ UNCHANGED users
       ELSE IF updated.email # row.email /\ email_taken(row.id, updated.email)
       THEN /\ Finish(p, ServerError)
            /\ UNCHANGED users
       ELSE /\ users' = (users \ {row}) \cup {updated}
            /\ pc' = [pc EXCEPT ![p] = "u_refresh"]
            /\ UNCHANGED <<local, resp>>
    /\ UNCHANGED <<now, sessions, nextSessionId, nextUserId, rotated, revoked, refused, overlap, served,
                   fileVars, tz_aware>>

\* UserService.update_user, db.refresh(user): the row is read again by its id,
\* which raises when it was deleted since the commit
UpdateReload(p) ==
    /\ pc[p] = "u_refresh"
    /\ IF UserById(local[p].user[1].id) = None
       THEN Finish(p, ServerError)
       ELSE Finish(p, Response(200, "", None, None))
    /\ UNCHANGED <<now, users, sessions, nextSessionId, nextUserId, rotated, revoked, refused, overlap,
                   served, fileVars, tz_aware>>

\* DELETE /users/{user_id} as current_user (None: no authenticated identity)
ReceiveDeleteUser(p, current_user, user_id) ==
    /\ pc[p] = "idle"
    /\ pc' = [pc EXCEPT ![p] = "d_load"]
    /\ local' = [local EXCEPT ![p] = [NoLocal EXCEPT !.op = "delete_user",
                                                     !.caller = current_user,
                                                     !.target = user_id]]
    /\ resp' = [resp EXCEPT ![p] = None]
    /\ served < MaxRequests
    /\ served' = served + 1
    /\ overlap' = [overlap EXCEPT ![p] = FALSE]
    /\ UNCHANGED <<now, users, sessions, nextSessionId, nextUserId, rotated, revoked, refused, fileVars, tz_aware>>

\* faulty variant of DeleteLoad: the test of user_id against the caller's id is left out
DeleteLoad_no_self_test(p) ==
    /\ pc[p] = "d_load"
    /\ LET current_user == local[p].caller
           user_id      == local[p].target
           guard        == require_role(current_user, {"admin"})
           user         == UserById(user_id)
       IN
       IF guard = 401
       THEN Finish(p, Response(401, "Authentication required", None, None))
       ELSE IF guard = 403
       THEN Finish(p, Response(403, "Role required: admin", None, None))
       ELSE IF user = None
       THEN Finish(p, Response(404, "User not found", None, None))
       ELSE /\ pc' = [pc EXCEPT ![p] = "d_commit"]
            /\ local' = [local EXCEPT ![p].user = user]
            /\ UNCHANGED resp
    /\ UNCHANGED <<now, users, sessions, nextSessionId, nextUserId, rotated, revoked, refused, overlap,
                   served, fileVars, tz_aware>>

\* the guard require_role(["admin"]), the endpoint's test of user_id against the
\* caller's id, and its get_user_by_id
DeleteLoad(p) ==
    /\ pc[p] = "d_load"
    /\ LET current_user == local[p].caller
           user_id      == local[p].target
           guard        == require_role(current_user, {"admin"})
           user         == UserById(user_id)
       IN
       IF guard = 401
       THEN Finish(p, Response(401, "Authentication required", None, None))
       ELSE IF guard = 403
       THEN Finish(p, Response(403, "Role required: admin", None, None))
       ELSE IF user_id = current_user[1].id
       THEN Finish(p, Response(400, "Cannot delete your own account", None, None))
       ELSE IF user = None
       THEN Finish(p, Response(404, "User not found", None, None))
       ELSE /\ pc' = [pc EXCEPT ![p] = "d_commit"]
            /\ local' = [local EXCEPT ![p].user = user]
            /\ UNCHANGED resp
    /\ UNCHANGED <<now, users, sessions, nextSessionId, nextUserId, rotated, revoked, refused, overlap,
                   served, fileVars, tz_aware>>

\* db.delete(user) with the relationship User.sessions (backref of Session.user,
\* no delete cascade, no passive_deletes): the flush first detaches the user's
\* session rows, UPDATE sessions SET user_id = NULL, which the NOT NULL column
\* refuses; TRUE when the commit fails this way
delete_user_fails(user_id) == \E s \in sessions : s.user_id = user_id

\* UserService.delete_user, db.delete and db.commit: the DELETE of the row with
\* the user's id, which is no error when the row is gone already
DeleteCommit(p) ==
    /\ pc[p] = "d_commit"
    /\ LET user_id == local[p].user[1].id IN
       IF delete_user_fails(user_id)
       THEN /\ Finish(p, ServerError)
            /\ UNCHANGED users
       ELSE /\ users' = {u \in users : u.id # user_id}
            /\ Finish(p, NoContent)
    /\ UNCHANGED <<now, sessions, nextSessionId, nextUserId, rotated, revoked, refused, overlap,
                   served, fileVars, tz_aware>>

Request(p) ==
    \/ \E email \in Emails, password \in Passwords : ReceiveLogin(p, email, password)
    \/ \E token \in Presentable : ReceiveRefresh(p, token)
    \/ \E token \in Presentable : ReceiveLogout(p, token)

Handler(p) ==
    \/ LoginAuth(p)
    \/ LoginCommit(p)
    \/ LoginReload(p)
    \/ RefreshLookup(p)
    \/ RefreshDeleteExpired(p)
    \/ RefreshLoadUser(p)
    \/ RefreshCommit(p)
    \/ RefreshReload(p)
    \/ LogoutLookup(p)
    \/ LogoutDelete(p)

----------------------------------------------------------------------------
(* The storage endpoints of api/v1/files.py and the guards of core/permissions.py, *)
(* each applied once to a request drawn at the start                               *)

MaxPathLen == 4

Chars == {"a", "b", "/", " "}

\* every str over Chars of at most MaxPathLen characters
Paths == UNION {[1..n -> Chars] : n \in 0..MaxPathLen}

\* users.allowed_path_prefix: NULL or "" (both <<>> here), blank, plain, with a
\* trailing separator, nested, and with leading whitespace (a space, a tab)
Restrictions ==
    {<<>>, <<" ">>, <<"a">>, <<"a", "/">>, <<"a", "/", "b">>, <<" ", "a">>, <<"\t", "a">>}

Permissions == {"files:read", "files:write", "files:delete", "analytics:read", "users:manage"}

RoleLists == {{"admin"}, {"admin", "editor"}}

\* current_user as the dependency injects it (None: no authenticated identity)
CurrentUsers ==
    {None} \cup {Some([id |-> 1, role |-> r, allowed_path_prefix |-> R]) :
                    r \in Roles, R \in Restrictions}

\* the identities the guards are tried on, one of them with a role outside the table
GuardUsers ==
    {None} \cup {Some([id |-> 1, role |-> r, allowed_path_prefix |-> <<>>]) :
                    r \in Roles \cup {"guest"}}

\* the default of the query parameter max_keys of both listings
DefaultMaxKeys == 1000

NoFileRequest ==
    [kind |-> "none", user |-> None, path |-> <<>>, permission |-> "", roles |-> {},
     max_keys |-> DefaultMaxKeys, page |-> S3PageMax]

\* a storage request; max_keys is left to its default and the bucket fills its
\* responses (page)
StorageRequests ==
    {[kind |-> "storage", user |-> u, path |-> k, permission |-> "", roles |-> {},
      max_keys |-> DefaultMaxKeys, page |-> S3PageMax] :
        u \in CurrentUsers, k \in Paths}

GuardRequests ==
    {[kind |-> "guard", user |-> u, path |-> <<>>, permission |-> q, roles |-> rs,
      max_keys |-> DefaultMaxKeys, page |-> S3PageMax] :
        u \in GuardUsers, q \in Permissions, rs \in RoleLists}

\* the bucket the storage requests meet: objects under "a/", the placeholder of
\* folder "a/", and objects of the sibling subtree "ab"
StoredKeys ==
    { <<"a", "/">>, <<"a", "/", "f">>, <<"a", "/", "b">>, <<"a", "b">>,
      <<"a", "b", "/", "f">>, <<"b">> }

\* the permission each endpoint is decorated with
EndpointPermission(endpoint) ==
    CASE endpoint \in {"list_tree", "list_files", "download"} -> "files:read"
      [] endpoint \in {"upload", "presigned_upload", "create_folder"} -> "files:write"
      [] endpoint = "delete" -> "files:delete"

StorageEndpoints ==
    {"list_tree", "list_files", "upload", "download", "delete", "presigned_upload",
     "create_folder"}

\* the outcome of an endpoint: the guard's status, else 403 when the scope test
\* raises, else the endpoint's own status with the key or prefix it hands to the store
Outcome(endpoint, denied, ok_status, key) ==
    LET guard == require_permission(freq.user, EndpointPermission(endpoint)) IN
    Some([endpoint |-> endpoint,
          ok       |-> guard = 200 /\ ~denied,
          status   |-> IF guard # 200 THEN guard ELSE IF denied THEN 403 ELSE ok_status,
          key      |-> IF guard = 200 /\ ~denied THEN Some(key) ELSE None,
          listed   |-> {}])

\* the keys of a list
Range(seq) == {seq[i] : i \in 1..Len(seq)}

Answer(outcome) ==
    /\ fresp = None
    /\ fresp' = outcome
    /\ UNCHANGED <<freq, sessionVars>>

\* an outcome that leaves the bucket as it is
Respond(outcome) == Answer(outcome) /\ UNCHANGED <<store, signed>>

\* GET /files/tree: the folders and files of list_with_folders under the
\* effective prefix; s3_ok is FALSE when the store answers the first request
\* with a ClientError, and the endpoint then answers 200 with nothing listed
list_files_with_folders(s3_ok) ==
    /\ freq.kind = "storage"
    /\ LET effective == effective_prefix(freq.user[1], freq.path)
           outcome   == Outcome("list_tree", effective = None, 200, effective[1])
           result    == list_with_folders(store, effective[1], freq.max_keys, freq.page,
                                          IF s3_ok THEN 0 ELSE 1)
       IN
       Respond(IF outcome[1].ok
               THEN Some([outcome[1] EXCEPT
                            !.listed = Range(result.folders) \cup Range(result.files)])
               ELSE outcome)

\* GET /files: the keys of S3Client.list_files under the effective prefix,
\* none when the store answers with a ClientError
list_files(s3_ok) ==
    /\ freq.kind = "storage"
    /\ LET effective == effective_prefix(freq.user[1], freq.path)
           outcome   == Outcome("list_files", effective = None, 200, effective[1])
       IN
       Respond(IF outcome[1].ok
               THEN Some([outcome[1] EXCEPT
                            !.listed = Range(s3_list_files(store, effective[1],
                                                           freq.max_keys, s3_ok))])
               ELSE outcome)

\* settings.ALLOWED_FILE_TYPES
ALLOWED_FILE_TYPES ==
    {"image/jpeg", "image/png", "image/gif", "image/webp", "application/pdf",
     "video/mp4", "video/quicktime",
     "application/vnd.openxmlformats-officedocument.spreadsheetml.sheet",
     "application/vnd.ms-excel"}

\* UploadFile.content_type of the uploads considered (None and "" alike)
ContentTypes == {None, Some("image/png"), Some("application/x-sh")}

\* the outcome of a request that passed the guard and the scope test and is then
\* refused with status before anything reaches the store
Refused(outcome, status) == Some([outcome[1] EXCEPT !.status = status, !.key = None])

\* the outcome of a request whose call of the store fails (a ClientError)
StoreFailed(outcome, status) == Some([outcome[1] EXCEPT !.status = status])

\* POST /files/upload: the content-type test, the scope test, then upload_fileobj
\* under the key; s3_ok is FALSE when the store answers with a ClientError
upload_file(content_type, s3_ok) ==
    /\ freq.kind = "storage"
    /\ LET key     == upload_key(freq.user[1], freq.path)
           guard   == require_permission(freq.user, EndpointPermission("upload"))
           checked == Outcome("upload", check_path_access_denied(freq.user[1], key), 201, key)
           outcome == IF /\ guard = 200
                         /\ content_type # None
                         /\ content_type[1] \notin ALLOWED_FILE_TYPES
                      THEN Some([checked[1] EXCEPT !.ok = FALSE, !.status = 415, !.key = None])
                      ELSE IF checked[1].ok /\ ~s3_ok THEN StoreFailed(checked, 500)
                      ELSE checked
       IN
       /\ Answer(outcome)
       /\ store' = IF outcome[1].status = 201 THEN store \cup {key} ELSE store
       /\ UNCHANGED signed

\* GET /files/download/{key}: a presigned GET URL for the key; the empty key is
\* refused by the parameter validation of generate_presigned_url, which raises
download_file(s3_ok) ==
    /\ freq.kind = "storage"
    /\ LET checked == Outcome("download",
                              check_path_access_denied(freq.user[1], freq.path), 200,
                              freq.path)
           outcome == IF checked[1].ok /\ freq.path = <<>> THEN Refused(checked, 500)
                      ELSE IF checked[1].ok /\ ~s3_ok THEN StoreFailed(checked, 404)
                      ELSE checked
       IN
       /\ Answer(outcome)
       /\ signed' = IF outcome[1].status = 200 THEN signed \cup {freq.path} ELSE signed
       /\ UNCHANGED store

\* faulty variant of delete_file: delete_object is called before the scope test
delete_file_unguarded(s3_ok) ==
    /\ freq.kind = "storage"
    /\ LET checked == Outcome("delete",
                              check_path_access_denied(freq.user[1], freq.path), 200,
                              freq.path)
           outcome == IF checked[1].ok /\ freq.path = <<>> THEN Refused(checked, 400)
                      ELSE checked
       IN
       /\ Answer(outcome)
       /\ store' = IF outcome[1].status \notin {400, 401} /\ s3_ok
                   THEN store \ {freq.path} ELSE store
       /\ UNCHANGED signed

\* DELETE /files/{key}: FileService.delete_file refuses the empty key with 400,
\* else delete_object of the key (a ClientError leaves the object, answer 200)
delete_file(s3_ok) ==
    /\ freq.kind = "storage"
    /\ LET checked == Outcome("delete",
                              check_path_access_denied(freq.user[1], freq.path), 200,
                              freq.path)
           outcome == IF checked[1].ok /\ freq.path = <<>> THEN Refused(checked, 400)
                      ELSE checked
       IN
       /\ Answer(outcome)
       /\ store' = IF outcome[1].status = 200 /\ s3_ok THEN store \ {freq.path} ELSE store
       /\ UNCHANGED signed

\* GET /files/presigned-upload: a presigned POST for the key
presigned_upload(s3_ok) ==
    /\ freq.kind = "storage"
    /\ LET checked == Outcome("presigned_upload",
                              check_path_access_denied(freq.user[1], freq.path), 200,
                              freq.path)
           outcome == IF checked[1].ok /\ ~s3_ok THEN StoreFailed(checked, 400) ELSE checked
       IN
       /\ Answer(outcome)
       /\ signed' = IF outcome[1].status = 200 THEN signed \cup {freq.path} ELSE signed
       /\ UNCHANGED store

\* POST /files/create-folder: put_object of the empty placeholder folder_path
create_folder(s3_ok) ==
    /\ freq.kind = "storage"
    /\ LET checked == Outcome("create_folder",
                              create_folder_denied(freq.user[1], freq.path), 201,
                              folder_path(freq.path))
           outcome == IF checked[1].ok /\ ~s3_ok THEN StoreFailed(checked, 500) ELSE checked
       IN
       /\ Answer(outcome)
       /\ store' = IF outcome[1].status = 201
                   THEN store \cup {folder_path(freq.path)} ELSE store
       /\ UNCHANGED signed

\* has_permission as a function of a user and a permission
CallHasPermission ==
    /\ freq.kind = "guard"
    /\ freq.user # None
    /\ Respond(Some([endpoint |-> "has_permission",
                     ok       |-> has_permission(freq.user[1], freq.permission),
                     status   |-> 0,
                     key      |-> None]))

\* an endpoint that does nothing, behind @require_permission(permission)
CallRequirePermission ==
    /\ freq.kind = "guard"
    /\ Respond(Some([endpoint |-> "require_permission",
                     ok       |-> require_permission(freq.user, freq.permission) = 200,
                     status   |-> require_permission(freq.user, freq.permission),
                     key      |-> None]))

\* an endpoint that does nothing, behind @require_role(roles)
CallRequireRole ==
    /\ freq.kind = "guard"
    /\ Respond(Some([endpoint |-> "require_role",
                     ok       |-> require_role(freq.user, freq.roles) = 200,
                     status   |-> require_role(freq.user, freq.roles),
                     key      |-> None]))

----------------------------------------------------------------------------
(* Specifications *)

Init ==
    /\ now = 0
    /\ served = 0
    /\ users = SeedUsers
    /\ sessions = {}
    /\ nextSessionId = 1
    /\ nextUserId = Cardinality(SeedUsers) + 1
    /\ pc = [p \in Procs |-> "idle"]
    /\ local = [p \in Procs |-> NoLocal]
    /\ resp = [p \in Procs |-> None]
    /\ rotated = {}
    /\ revoked = {}
    /\ refused = {}
    /\ overlap = [p \in Procs |-> FALSE]
    /\ freq = NoFileRequest
    /\ fresp = None
    /\ store = {}
    /\ signed = {}
    /\ tz_aware \in BOOLEAN

\* one worker serving login, refresh and logout one request at a time; the
\* clock and the administrator's PUT /users/{id} move between any two of its awaits
Next ==
    \/ Request(W1)
    \/ Handler(W1)
    \/ Env

Spec == Init /\ [][Next]_vars

\* two workers: the awaits of two handlers interleave freely, and with the clock;
\* one request to set the scene and one more for each worker
NextConc ==
    \/ (served <= Cardinality(Procs) /\ \E p \in Procs : Request(p))
    \/ \E p \in Procs : Handler(p)
    \/ Tick
    \/ Sleep

SpecConc == Init /\ [][NextConc]_vars

\* the state the login of a@x.com at time 0 leaves, taken as the starting point:
\* the budget of requests counts from here
InitLoggedIn ==
    LET user == CHOOSE u \in SeedUsers : u.email = "a@x.com"
        row  == [id            |-> 1,
                 user_id       |-> user.id,
                 refresh_token |-> create_refresh_token(TokenData(user), 0),
                 expires_at    |-> RefreshTicks]
    IN
    /\ now = 0
    /\ served = 0
    /\ users = (SeedUsers \ {user}) \cup {[user EXCEPT !.last_login_at = Some(0)]}
    /\ sessions = {row}
    /\ nextSessionId = 2
    /\ nextUserId = Cardinality(SeedUsers) + 1
    /\ pc = [p \in Procs |-> "idle"]
    /\ local = [p \in Procs |->
                 IF p = W1
                 THEN [NoLocal EXCEPT !.op = "login", !.email = "a@x.com", !.password = "secret"]
                 ELSE NoLocal]
    /\ resp = [p \in Procs |->
                 IF p = W1
                 THEN TokenPair(create_access_token(TokenData(user), 0), row.refresh_token)
                 ELSE None]
    /\ rotated = {}
    /\ revoked = {}
    /\ refused = {}
    /\ overlap = [p \in Procs |-> FALSE]
    /\ freq = NoFileRequest
    /\ fresp = None
    /\ store = {}
    /\ signed = {}
    /\ tz_aware \in BOOLEAN

SpecLoggedIn == InitLoggedIn /\ [][Next]_vars

\* the user-management endpoints next to login, refresh and logout, with an
\* administrator among the users; the clock stands still, so no session expires
AdminUser ==
    [id |-> Cardinality(SeedUsers) + 1, email |-> "root@x.com",
     hashed_password |-> get_password_hash("secret"), role |-> "admin",
     is_active |-> TRUE, last_login_at |-> None]

SignupEmails == {"a@x.com", "c@x.com"}

\* a UserUpdate with nothing set
NoUpdate == [email |-> None, role |-> None, is_active |-> None, password |-> None]

UpdateBodies ==
    {[NoUpdate EXCEPT !.email = Some(email)] : email \in SignupEmails}
    \cup {[NoUpdate EXCEPT !.is_active = Some(FALSE)]}

\* the UserCreate bodies of POST /users: an administrator, and a viewer that
\* is created inactive
CreateBodies ==
    {[email |-> email, password |-> "secret", role |-> kind.role,
      is_active |-> kind.is_active] :
        email \in SignupEmails,
        kind \in {[role |-> "admin", is_active |-> TRUE],
                  [role |-> "viewer", is_active |-> FALSE]}}

\* two workers serving signup, POST /users, PUT and DELETE /users/{user_id}
RequestUsers(p) ==
    \/ \E email \in SignupEmails : ReceiveSignup(p, email, "secret", "viewer")
    \/ \E current_user \in {None} \cup {Some(u) : u \in {v \in users : v.is_active}},
          user_in \in CreateBodies :
            ReceiveCreateUser(p, current_user, user_in)
    \/ \E current_user \in {None} \cup {Some(u) : u \in {v \in users : v.is_active}},
          user_id \in 1..(nextUserId - 1) :
            ReceiveDeleteUser(p, current_user, user_id)
    \/ \E current_user \in {None} \cup {Some(u) : u \in {v \in users : v.is_active}},
          user_id \in {u.id : u \in SeedUsers},
          user_in \in UpdateBodies :
            ReceiveUpdateUser(p, current_user, user_id, user_in)

NextUsers ==
    \/ (served <= Cardinality(Procs) /\ \E p \in Procs : RequestUsers(p))
    \/ \E p \in Procs : CreateUserCheck(p)
    \/ \E p \in Procs : CreateUserCommit(p)
    \/ \E p \in Procs : CreateUserReload(p)
    \/ \E p \in Procs : UpdateLoad(p)
    \/ \E p \in Procs : UpdateCheck(p)
    \/ \E p \in Procs : UpdateCommit(p)
    \/ \E p \in Procs : UpdateReload(p)
    \/ \E p \in Procs : DeleteLoad(p)
    \/ \E p \in Procs : DeleteCommit(p)

InitAdmin ==
    /\ now = 0
    /\ served = 0
    /\ users = SeedUsers \cup {AdminUser}
    /\ sessions = {}
    /\ nextSessionId = 1
    /\ nextUserId = Cardinality(SeedUsers) + 2
    /\ pc = [p \in Procs |-> "idle"]
    /\ local = [p \in Procs |-> NoLocal]
    /\ resp = [p \in Procs |-> None]
    /\ rotated = {}
    /\ revoked = {}
    /\ refused = {}
    /\ overlap = [p \in Procs |-> FALSE]
    /\ freq = NoFileRequest
    /\ fresp = None
    /\ store = {}
    /\ signed = {}
    /\ tz_aware \in BOOLEAN

RequestAdmin(p) ==
    \/ \E email \in SignupEmails : ReceiveLogin(p, email, "secret")
    \/ \E token \in Presentable : ReceiveRefresh(p, token)
    \/ \E token \in Presentable : ReceiveLogout(p, token)
    \/ \E email \in SignupEmails, role \in Roles : ReceiveSignup(p, email, "secret", role)
    \/ \E current_user \in {None} \cup {Some(u) : u \in {v \in users : v.is_active}},
          user_in \in CreateBodies :
            ReceiveCreateUser(p, current_user, user_in)
    \/ \E current_user \in {None} \cup {Some(u) : u \in {v \in users : v.is_active}},
          user_id \in 1..(nextUserId - 1) :
            ReceiveDeleteUser(p, current_user, user_id)

NextAdmin ==
    \/ RequestAdmin(W1)
    \/ LoginAuth(W1)
    \/ LoginCommit(W1)
    \/ LoginReload(W1)
    \/ RefreshLookup(W1)
    \/ RefreshLoadUser(W1)
    \/ RefreshCommit(W1)
    \/ RefreshReload(W1)
    \/ LogoutLookup(W1)
    \/ LogoutDelete(W1)
    \/ CreateUserCheck(W1)
    \/ CreateUserCommit(W1)
    \/ CreateUserReload(W1)
    \/ DeleteLoad(W1)
    \/ DeleteCommit(W1)

SpecAdmin == InitAdmin /\ [][NextAdmin]_vars

SpecUsers == InitAdmin /\ [][NextUsers]_vars

\* one storage or guard request, on an untouched database
(* a users row whose hashed_password was not written by get_password_hash *)

\* digests pwd_context cannot verify: the empty string, a digest of a scheme
\* the context does not list, a bcrypt digest cut short
MalformedDigests == {<<>>, <<"md5", "secret">>, <<"bcrypt">>}

StoredUser(digest) ==
    [id |-> 3, email |-> "old@x.com", hashed_password |-> digest,
     role |-> "viewer", is_active |-> TRUE, last_login_at |-> None]

StoredEmails == {"a@x.com", "old@x.com"}

InitStored ==
    /\ now = 0
    /\ served = 0
    /\ \E digest \in MalformedDigests : users = SeedUsers \cup {StoredUser(digest)}
    /\ sessions = {}
    /\ nextSessionId = 1
    /\ nextUserId = Cardinality(SeedUsers) + 2
    /\ pc = [p \in Procs |-> "idle"]
    /\ local = [p \in Procs |-> NoLocal]
    /\ resp = [p \in Procs |-> None]
    /\ rotated = {}
    /\ revoked = {}
    /\ refused = {}
    /\ overlap = [p \in Procs |-> FALSE]
    /\ freq = NoFileRequest
    /\ fresp = None
    /\ store = {}
    /\ signed = {}
    /\ tz_aware = TRUE

NextStored ==
    \/ \E email \in StoredEmails, password \in Passwords : ReceiveLogin(W1, email, password)
    \/ LoginAuth(W1)
    \/ LoginCommit(W1)
    \/ LoginReload(W1)

SpecStored == InitStored /\ [][NextStored]_vars

(* decode_token applied to one token string at one time *)

AccessTicks == AccessSecs * TicksPerSec

\* times around the issue of a token and around the end of either lifetime
DecodeTimes ==
    (0..ClockWindow)
    \cup ((AccessTicks - 1)..(AccessTicks + 2 * TicksPerSec + 1))
    \cup ((RefreshTicks - 1)..(RefreshTicks + 2 * TicksPerSec + 1))

IssuedTokens ==
    UNION { {create_access_token(TokenData(u), t), create_refresh_token(TokenData(u), t)} :
            u \in SeedUsers, t \in 0..ClockWindow }

DecodeRequests ==
    { [kind |-> "decode", token |-> token] :
      token \in UNION { {tok, Tamper(tok), TamperUnusedBits(tok), Truncate(tok), Garble(tok),
                         Surrogate(tok), NestHeader(tok)} : tok \in IssuedTokens } }

CallDecodeToken ==
    /\ freq.kind = "decode"
    /\ Respond(Some([endpoint |-> "decode_token",
                     result   |-> decode_token(freq.token, now)]))

InitDecode ==
    /\ now \in DecodeTimes
    /\ served = 0
    /\ users = SeedUsers
    /\ sessions = {}
    /\ nextSessionId = 1
    /\ nextUserId = Cardinality(SeedUsers) + 1
    /\ pc = [p \in Procs |-> "idle"]
    /\ local = [p \in Procs |-> NoLocal]
    /\ resp = [p \in Procs |-> None]
    /\ rotated = {}
    /\ revoked = {}
    /\ refused = {}
    /\ overlap = [p \in Procs |-> FALSE]
    /\ freq \in DecodeRequests
    /\ fresp = None
    /\ store = {}
    /\ signed = {}
    /\ tz_aware = TRUE

NextDecode == CallDecodeToken

SpecDecode == InitDecode /\ [][NextDecode]_vars

(* S3Client.list_with_folders applied to one bucket and one request *)

\* a bucket of more objects than the page cap: every name of three characters
\* out of four
ManyKeys == [1..3 -> {"1", "a", "b", "f"}]

\* max_keys below, at and above one page, and beyond the page cap; the bucket
\* answers with one entry a response, two, or as many as asked for
ListRequests ==
    {[kind |-> "list", user |-> None, path |-> prefix, permission |-> "", roles |-> {},
      max_keys |-> max_keys, page |-> page] :
        prefix \in {<<>>, <<"a">>, <<"a", "/">>},
        max_keys \in {1, 2, S3PageMax, S3PageMax + 1, MaxPagesCap * S3PageMax,
                      (MaxPagesCap + 1) * S3PageMax},
        page \in {1, 2, S3PageMax}}

\* the requests of one listing that may be the one to raise a ClientError
FailAt == 0..2

CallListWithFolders(fail_at) ==
    /\ freq.kind = "list"
    /\ LET result == list_with_folders(store, freq.path, freq.max_keys, freq.page,
                                       fail_at) IN
       Respond(Some([endpoint |-> "S3Client.list_with_folders",
                     folders  |-> result.folders,
                     files    |-> result.files,
                     pages    |-> result.pages]))

InitList ==
    /\ now = 0
    /\ served = 0
    /\ users = SeedUsers
    /\ sessions = {}
    /\ nextSessionId = 1
    /\ nextUserId = Cardinality(SeedUsers) + 1
    /\ pc = [p \in Procs |-> "idle"]
    /\ local = [p \in Procs |-> NoLocal]
    /\ resp = [p \in Procs |-> None]
    /\ rotated = {}
    /\ revoked = {}
    /\ refused = {}
    /\ overlap = [p \in Procs |-> FALSE]
    /\ freq \in ListRequests
    /\ fresp = None
    /\ store \in {{}, StoredKeys, ManyKeys}
    /\ signed = {}
    /\ tz_aware = TRUE

NextList == \E fail_at \in FailAt : CallListWithFolders(fail_at)

SpecList == InitList /\ [][NextList]_vars

InitFiles ==
    /\ now = 0
    /\ served = 0
    /\ users = SeedUsers
    /\ sessions = {}
    /\ nextSessionId = 1
    /\ nextUserId = Cardinality(SeedUsers) + 1
    /\ pc = [p \in Procs |-> "idle"]
    /\ local = [p \in Procs |-> NoLocal]
    /\ resp = [p \in Procs |-> None]
    /\ rotated = {}
    /\ revoked = {}
    /\ refused = {}
    /\ overlap = [p \in Procs |-> FALSE]
    /\ freq \in StorageRequests \cup GuardRequests
    /\ fresp = None
    /\ store = StoredKeys
    /\ signed = {}
    /\ tz_aware = TRUE

NextFiles ==
    \/ \E s3_ok \in BOOLEAN : list_files_with_folders(s3_ok)
    \/ \E s3_ok \in BOOLEAN : list_files(s3_ok)
    \/ \E content_type \in ContentTypes, s3_ok \in BOOLEAN : upload_file(content_type, s3_ok)
    \/ \E s3_ok \in BOOLEAN : download_file(s3_ok)
    \/ \E s3_ok \in BOOLEAN : delete_file(s3_ok)
    \/ \E s3_ok \in BOOLEAN : presigned_upload(s3_ok)
    \/ \E s3_ok \in BOOLEAN : create_folder(s3_ok)
    \/ CallHasPermission
    \/ CallRequirePermission
    \/ CallRequireRole

SpecFiles == InitFiles /\ [][NextFiles]_vars

----------------------------------------------------------------------------
(* Properties *)

\* worker p's request ends in this step
Completes(p) == resp[p] = None /\ resp'[p] # None

\* worker p's refresh returns a token pair in this step
RefreshSucceeds(p) ==
    /\ local[p].op = "refresh"
    /\ Completes(p)
    /\ resp'[p][1].status = 200

\* C1 (first half): a refresh token that a successful refresh was called with is
\* never accepted again: no refresh succeeds with a token in rotated.
C1_NoReplay ==
    \A p \in Procs : RefreshSucceeds(p) => local[p].tok[1] \notin rotated

\* C1 (second half): a refresh called with the token of a session row, while the
\* token verifies, the row is unexpired and its owner is active, returns a token pair.
C1_CurrentTokenAccepted ==
    \A p \in Procs :
        ( /\ local[p].op = "refresh"
          /\ Completes(p)
          /\ \E s \in sessions :
                /\ s.refresh_token = local[p].tok[1]
                /\ decode_token(s.refresh_token, now) # None
                /\ ~(s.expires_at < now)
                /\ \E u \in users : u.id = s.user_id /\ u.is_active )
        => resp'[p][1].status = 200

\* C1: rotation is single-use: after refresh(T1) succeeded, every later
\* refresh(T1) fails, however soon it comes, while the current token is accepted.
C1_RotationSingleUse == [][C1_NoReplay /\ C1_CurrentTokenAccepted]_vars

\* C2: at most one winner per token value: a refresh never succeeds when a
\* refresh running at the same time with the same token has already succeeded.
C2_AtMostOneWinner ==
    [][\A p \in Procs : RefreshSucceeds(p) => ~overlap[p]]_vars

\* C3: lazy expiry: a refresh called with the token of a session row whose
\* expires_at is in the past fails, and the row is gone when the call returns.
C3_LazyExpiry ==
    [][\A p \in Procs :
        ( /\ local[p].op = "refresh"
          /\ Completes(p)
          /\ \E s \in sessions :
                s.refresh_token = local[p].tok[1] /\ s.expires_at < now )
        => /\ resp'[p][1].status # 200
           /\ ~\E s \in sessions' : s.refresh_token = local[p].tok[1]]_vars

\* the restriction R of the request's user, and whether the claims' containment
\* holds of a key K: K equals R or lies under R + "/" (trailing separators aside)
RestrictionOf(request) == request.user[1].allowed_path_prefix

Within(R, K) ==
    \/ rstrip(K, "/") = rstrip(R, "/")
    \/ startswith(rstrip(K, "/"), rstrip(R, "/") \o Slash)

\* C4: for a non-admin user with a non-empty restriction R, a direct-key
\* request (download) for key K is let through iff K equals R or lies under R + "/".
C4_DirectKeyScope ==
    ( /\ fresp # None
      /\ fresp[1].endpoint = "download"
      /\ freq.user # None
      /\ freq.user[1].role # "admin"
      /\ RestrictionOf(freq) # <<>> )
    => (fresp[1].ok <=> Within(RestrictionOf(freq), freq.path))

\* C5: for a user with a non-empty restriction R and base B = R without trailing
\* separators + "/", a listing of prefix P is Forbidden iff P (trailing separators
\* stripped) is non-empty and P + "/" does not start with B, and an empty P lists B.
C5_ListingScope ==
    ( /\ fresp # None
      /\ fresp[1].endpoint \in {"list_tree", "list_files"}
      /\ freq.user # None
      /\ RestrictionOf(freq) # <<>> )
    => LET B == rstrip(RestrictionOf(freq), "/") \o Slash
           P == rstrip(freq.path, "/")
       IN  /\ fresp[1].status = 403 <=> (P # <<>> /\ ~startswith(P \o Slash, B))
           /\ P = <<>> => fresp[1].key = Some(B)

\* C6: an admin, whatever its allowed_path_prefix, and any user with an empty or
\* absent restriction, is never refused on path scope by a storage endpoint: with
\* the endpoint's permission held, the status is never 403.
C6_AdminBypass ==
    ( /\ fresp # None
      /\ fresp[1].endpoint \in StorageEndpoints
      /\ freq.user # None
      /\ (freq.user[1].role = "admin" \/ RestrictionOf(freq) = <<>>)
      /\ has_permission(freq.user[1], EndpointPermission(fresp[1].endpoint)) )
    => fresp[1].status # 403

\* the table of section 4.3, as role/operation pairs (admin: every operation)
PermissionTable ==
    ({"editor"} \X {"files:read", "files:write", "files:delete", "analytics:read"})
    \cup ({"viewer"} \X {"files:read", "analytics:read"})
    \cup ({"external_viewer"} \X {"files:read"})

Permitted(role, operation) == role = "admin" \/ <<role, operation>> \in PermissionTable

\* C7: has_permission(r, o) holds iff r is admin or o is in r's row of the table
\* (a role outside the table is refused everything); so a viewer passes the
\* guard for files:read and gets 403 for files:delete.
C7_PermissionTable ==
    /\ (fresp # None /\ fresp[1].endpoint = "has_permission")
       => (fresp[1].ok <=> Permitted(freq.user[1].role, freq.permission))
    /\ ( /\ fresp # None
         /\ fresp[1].endpoint = "require_permission"
         /\ freq.user # None
         /\ freq.user[1].role = "viewer" )
       => /\ freq.permission = "files:read" => fresp[1].status = 200
          /\ freq.permission = "files:delete" => fresp[1].status = 403

C7_Witness ==
    /\ fresp # None
    /\ fresp[1].endpoint = "require_permission"
    /\ freq.user # None
    /\ freq.user[1].role = "viewer"
    /\ freq.permission = "files:delete"
    /\ fresp[1].status = 403

\* C8: a guard answers 401 exactly when there is no authenticated identity and
\* 403 exactly when there is one whose role or permission is insufficient; the
\* wrapped endpoint runs (and reaches the store) only when neither happens.
C8_GuardFailureKinds ==
    /\ (fresp # None /\ fresp[1].endpoint = "require_permission")
       => /\ fresp[1].status = 401 <=> freq.user = None
          /\ fresp[1].status = 403 <=>
                (freq.user # None /\ ~Permitted(freq.user[1].role, freq.permission))
          /\ fresp[1].status = 200 <=>
                (freq.user # None /\ Permitted(freq.user[1].role, freq.permission))
    /\ (fresp # None /\ fresp[1].endpoint = "require_role")
       => /\ fresp[1].status = 401 <=> freq.user = None
          /\ fresp[1].status = 403 <=>
                (freq.user # None /\ freq.user[1].role \notin freq.roles)
          /\ fresp[1].status = 200 <=>
                (freq.user # None /\ freq.user[1].role \in freq.roles)
    /\ (fresp # None /\ fresp[1].endpoint \in StorageEndpoints)
       => /\ fresp[1].status = 401 <=> freq.user = None
          /\ fresp[1].key # None =>
                /\ freq.user # None
                /\ Permitted(freq.user[1].role, EndpointPermission(fresp[1].endpoint))

C8_Witness ==
    /\ fresp # None
    /\ fresp[1].endpoint = "require_permission"
    /\ freq.user = None
    /\ fresp[1].status = 401

\* why authenticate_user refuses the credentials, "none" when it does not
LoginFailureCause(email, password) ==
    IF ~\E u \in users : u.email = email THEN "unknown email"
    ELSE IF \E u \in users : u.email = email /\ u.hashed_password # get_password_hash(password)
    THEN "password mismatch"
    ELSE IF \E u \in users : u.email = email /\ ~u.is_active THEN "inactive"
    ELSE "none"

\* C9: a login that fails for an unknown email, a wrong password or an inactive
\* user ends, in all three cases, in the one response LoginFailed (401 with the
\* same message) at the authentication step.
C9_LoginCauseMasking ==
    [][\A p \in Procs :
        ( /\ pc[p] = "l_auth"
          /\ pc'[p] # "l_auth"
          /\ LoginFailureCause(local[p].email, local[p].password) # "none" )
        => resp'[p] = LoginFailed]_vars

\* C10: the commit of a login writes, in one step, the user's last_login_at
\* and exactly one new session row, owned by that user and expiring
\* REFRESH_TOKEN_EXPIRE_DAYS after the time the login read the clock; the login
\* then answers with the refresh token that row holds; every other step of a
\* login, and a commit that fails, changes neither table, and a login that is
\* answered with a failure has not committed.
C10_LoginWrite ==
    [][\A p \in Procs :
        (local[p].op = "login" /\ pc'[p] # pc[p]) =>
            /\ (pc[p] = "l_commit" /\ pc'[p] = "l_refresh")
                 => \E u \in users :
                       /\ u.email = local[p].email
                       /\ local[p].stamp <= now
                       /\ users' = (users \ {u})
                                     \cup {[u EXCEPT !.last_login_at = Some(local[p].stamp)]}
                       /\ \E s \in sessions' :
                             /\ s \notin sessions
                             /\ sessions' = sessions \cup {s}
                             /\ s.user_id = u.id
                             /\ local'[p].sess = Some(s)
                             /\ s.expires_at =
                                   local[p].stamp
                                     + REFRESH_TOKEN_EXPIRE_DAYS * 24 * 60 * 60 * TicksPerSec
            /\ ~(pc[p] = "l_commit" /\ pc'[p] = "l_refresh")
                 => (users' = users /\ sessions' = sessions)
            /\ (Completes(p) /\ resp'[p][1].status = 200)
                 => \E s \in sessions :
                       /\ s.id = local[p].sess[1].id
                       /\ Some(s.refresh_token) = resp'[p][1].refresh_token
            /\ (Completes(p) /\ resp'[p][1].status # 200)
                 => pc[p] \in {"l_auth", "l_commit"}]_vars

\* the values the clock takes
ClockValues == (0..ClockWindow) \cup (RefreshTicks..(RefreshTicks + ClockWindow))

\* token is an access token login or refresh can have issued to a user
IsIssuedAccessToken(token) ==
    \E u \in users, t \in ClockValues : token = create_access_token(TokenData(u), t)

\* C11: a refresh never returns a token pair when the token presented lacks
\* type = "refresh"; in particular not when it is an access token that login or
\* refresh issues, whatever the session table holds.
C11_NoTypeConfusion ==
    [][\A p \in Procs :
        RefreshSucceeds(p) =>
            /\ local[p].tok[1].type = "refresh"
            /\ ~IsIssuedAccessToken(local[p].tok[1])]_vars

\* a refresh presenting a verifying, unexpired access token of a user with a
\* live session was answered RefreshFailed
C11_Witness ==
    \E p \in Procs :
        /\ local[p].op = "refresh"
        /\ resp[p] = RefreshFailed
        /\ IsIssuedAccessToken(local[p].tok[1])
        /\ local[p].tok[1].type # "refresh"
        /\ decode_token(local[p].tok[1], now) # None
        /\ \E s \in sessions : Str(s.user_id) = local[p].tok[1].sub

\* C12: logout(T) answers LogoutFailed and changes no table when no session row
\* holds T; when one does it ends deleting exactly that row and answering
\* LoggedOut; and no refresh called with a token of a successful logout ever
\* returns a token pair.
C12_Logout ==
    [][\A p \in Procs :
        /\ (pc[p] = "o_lookup" /\ pc'[p] # "o_lookup")
           => IF \E s \in sessions : s.refresh_token = local[p].tok[1]
              THEN pc'[p] = "o_delete" /\ sessions' = sessions /\ users' = users
              ELSE resp'[p] = LogoutFailed /\ sessions' = sessions /\ users' = users
        /\ (pc[p] = "o_delete" /\ pc'[p] # "o_delete")
           => /\ resp'[p] = LoggedOut
              /\ sessions' = {s \in sessions : s.refresh_token # local[p].tok[1]}
              /\ users' = users
        /\ RefreshSucceeds(p) => local[p].tok[1] \notin revoked]_vars

\* C13: no two session rows hold the same refresh_token
C13_TokenUnique ==
    \A s1, s2 \in sessions : s1.refresh_token = s2.refresh_token => s1 = s2

\* two session rows exist, and a login that would have stored the token of one
\* of them again was refused
C13_Witness ==
    /\ Cardinality(sessions) >= 2
    /\ \E p \in Procs :
          /\ local[p].op = "login"
          /\ resp[p] = ServerError
          /\ \E s \in sessions, u \in users :
                /\ u.email = local[p].email
                /\ s.user_id = u.id
                /\ s.refresh_token = create_refresh_token(TokenData(u), now)

\* C14: the commit of a refresh rewrites, in the row that held the presented
\* token, the token (to the one the refresh returns) and the expiry (to the time
\* the refresh read the clock + REFRESH_TOKEN_EXPIRE_DAYS) and nothing else: the
\* row's id and owner, every other row and the number of rows stay as they
\* were; no step of a refresh adds a row.
C14_RotationInPlace ==
    [][\A p \in Procs :
        (local[p].op = "refresh" /\ pc'[p] # pc[p]) =>
            /\ (pc[p] = "r_commit" /\ pc'[p] = "r_refresh")
                 => \E row \in sessions :
                       /\ row.refresh_token = local[p].tok[1]
                       /\ local[p].stamp <= now
                       /\ sessions' =
                             (sessions \ {row}) \cup
                             {[id            |-> row.id,
                               user_id       |-> row.user_id,
                               refresh_token |-> local[p].new_refresh[1],
                               expires_at    |-> local[p].stamp
                                                   + REFRESH_TOKEN_EXPIRE_DAYS * 24 * 60 * 60
                                                       * TicksPerSec]}
                       /\ Cardinality(sessions') = Cardinality(sessions)
            /\ RefreshSucceeds(p)
                 => /\ sessions' = sessions
                    /\ \E row \in sessions :
                          /\ row.id = local[p].sess[1].id
                          /\ Some(row.refresh_token) = resp'[p][1].refresh_token
            /\ Cardinality(sessions') <= Cardinality(sessions)]_vars

\* a refresh returned a token other than the one presented, and a second session
\* row was there to be left alone
C14_Witness ==
    \E p \in Procs :
        /\ local[p].op = "refresh"
        /\ resp[p] # None
        /\ resp[p][1].status = 200
        /\ resp[p][1].refresh_token # local[p].tok
        /\ Cardinality(sessions) >= 2
        /\ \E s \in sessions :
              /\ Some(s.refresh_token) = resp[p][1].refresh_token
              /\ s.expires_at = now + RefreshTicks

\* C16: a login goes on to issue tokens only for a user whose row is there and
\* active when authenticate_user reads it, and a login answered with a token
\* pair is one that read such a row; a refresh goes on to rotate only when
\* the owner of the session is there and active when the refresh reloads it,
\* a refresh answered with a token pair is one that read such an owner, and a
\* refresh whose owner is missing or inactive at the reload is answered
\* RefreshFailed: a user deactivated after the login cannot refresh.
C16_OnlyActiveUsers ==
    [][\A p \in Procs :
        /\ (pc[p] = "l_auth" /\ pc'[p] = "l_commit")
           => \E u \in users : /\ u.email = local[p].email
                                /\ u.is_active
                                /\ local'[p].user = Some(u)
        /\ (local[p].op = "login" /\ Completes(p) /\ resp'[p][1].status = 200)
           => /\ local[p].user # None
              /\ local[p].user[1].email = local[p].email
              /\ local[p].user[1].is_active
        /\ (pc[p] = "r_user" /\ pc'[p] # "r_user")
           => LET owners == {u \in users : u.id = local[p].sess[1].user_id /\ u.is_active} IN
              IF owners = {}
              THEN resp'[p] = RefreshFailed
              ELSE pc'[p] = "r_commit" /\ local'[p].user[1] \in owners
        /\ RefreshSucceeds(p)
           => /\ local[p].user # None
              /\ local[p].user[1].id = local[p].sess[1].user_id
              /\ local[p].user[1].is_active]_vars

\* the owner of a live session was deactivated after the login, and a refresh
\* with the session's token, verifying and unexpired, was answered RefreshFailed
C16_Witness ==
    \E p \in Procs :
        /\ local[p].op = "refresh"
        /\ resp[p] = RefreshFailed
        /\ \E s \in sessions :
              /\ Some(s.refresh_token) = local[p].tok
              /\ decode_token(s.refresh_token, now) # None
              /\ ~(s.expires_at < now)
              /\ \E u \in users : u.id = s.user_id /\ ~u.is_active /\ u.last_login_at # None

\* C15: deleting a user as an administrator (another user, who exists) ends with
\* 204 whether or not the user has session rows, and leaves neither the user nor
\* a session row that references it; and no refresh returns a token pair on a
\* token whose subject is not a user any more.
C15_CascadeDelete ==
    [][\A p \in Procs :
        /\ ( /\ local[p].op = "delete_user"
             /\ Completes(p)
             /\ local[p].caller # None
             /\ local[p].caller[1].role = "admin"
             /\ local[p].target # local[p].caller[1].id
             /\ \E u \in users : u.id = local[p].target )
           => /\ resp'[p][1].status = 204
              /\ ~\E u \in users' : u.id = local[p].target
              /\ ~\E s \in sessions' : s.user_id = local[p].target
        /\ RefreshSucceeds(p)
           => \E u \in users' : Str(u.id) = local[p].tok[1].sub]_vars

\* C20: whatever role the body of the request named, a step of a signup that
\* changes the user table adds one row, with the email of the request, role
\* viewer and active, and changes no other; a signup answered 201 leaves such a
\* row, and one answered otherwise was refused for its email and added none.
C20_SignupViewer ==
    [][\A p \in Procs :
        (local[p].op = "signup" /\ pc[p] # "idle")
        => /\ users' # users
              => \E u \in users' :
                    /\ u \notin users
                    /\ users' = users \cup {u}
                    /\ u.email = local[p].email
                    /\ u.role = "viewer"
                    /\ u.is_active
           /\ Completes(p)
              => \/ /\ resp'[p] = Created
                    /\ \E u \in users' : /\ u.email = local[p].email
                                          /\ u.role = "viewer"
                                          /\ u.is_active
                 \/ /\ resp'[p] = EmailTaken
                    /\ ~\E u \in users' : u.id >= nextUserId]_vars

\* a signup whose body named the role admin created a user
C20_Witness ==
    \E p \in Procs :
        /\ local[p].op = "signup"
        /\ local[p].role = "admin"
        /\ resp[p] = Created
        /\ \E u \in users : u.email = local[p].email /\ u.id >= Cardinality(SeedUsers) + 2

\* C17: verify_password never raises on a stored digest that is not a
\* well-formed digest of a configured scheme: it answers false, and a login
\* against such a user ends in the ordinary invalid-credentials failure
C17_MalformedDigest ==
    \A p \in Procs :
        /\ pc[p] = "l_auth"
          => \A u \in users :
                u.email = local[p].email
                  => verify_password(local[p].password, u.hashed_password).raised = ""
        /\ (pc[p] = "idle" /\ local[p].op = "login" /\ resp[p] # None
             /\ \E u \in users : /\ u.email = local[p].email
                                 /\ u.hashed_password \in MalformedDigests)
          => resp[p] = LoginFailed

\* the token string is a token the program issued, byte for byte
Untampered(token) == token \in IssuedTokens

\* C18: decode_token never raises: for a malformed string, a string whose
\* signature does not verify and a token whose exp has passed it returns None,
\* and it returns claims, the token's own, only for an untampered token whose
\* exp has not passed
C18_DecodeTotal ==
    (fresp # None /\ fresp[1].endpoint = "decode_token")
      => LET result == fresp[1].result
             live   == Untampered(freq.token) /\ freq.token.exp >= Secs(now)
         IN
         /\ result \in {None, Some(freq.token)}
         /\ (result # None) <=> live

\* the request of p was a login or a refresh and it was answered with a failure
AuthFailure(p) ==
    /\ pc[p] = "idle"
    /\ local[p].op \in {"login", "refresh"}
    /\ resp[p] # None
    /\ resp[p][1].status # 200

\* C19: every failing login and every failing refresh is answered with the
\* same status and the same message, whichever operation and whichever step
\* of it failed
C19_SameFailure ==
    \A p, q \in Procs :
        (AuthFailure(p) /\ AuthFailure(q))
          => /\ resp[p][1].status = resp[q][1].status
             /\ resp[p][1].detail = resp[q][1].detail

\* UserService.create_user is called for p's request (signup, or POST /users
\* of an administrator) and the email is registered to a user when it looks it up
CreateOnHeldEmail(p) ==
    /\ pc[p] = "c_check"
    /\ pc'[p] # "c_check"
    /\ local[p].op = "create_user" => require_role(local[p].caller, {"admin"}) = 200
    /\ \E u \in users : u.email = local[p].email

\* p's update_user changes the email of the user it loaded, and a different
\* user has the new email when it is looked up
UpdateToHeldEmail(p) ==
    /\ pc[p] = "u_check"
    /\ pc'[p] # "u_check"
    /\ local[p].body[1].email # None
    /\ local[p].body[1].email[1] # local[p].user[1].email
    /\ \E u \in users : /\ u.email = local[p].body[1].email[1]
                        /\ u.id # local[p].user[1].id

\* C21: create_user with an email a user holds, and update_user changing the
\* email to one a different user holds, fail with 409 and leave the user table
\* unchanged; in every reachable state, concurrent creates included, no two
\* users share an email
C21_EmailUnique ==
    /\ [](\A u, v \in users : u.email = v.email => u = v)
    /\ [][\A p \in Procs :
            (CreateOnHeldEmail(p) \/ UpdateToHeldEmail(p))
              => /\ resp'[p] = EmailTaken
                 /\ users' = users]_vars

\* two creates of one email ran side by side: one was answered 201, the other
\* was stopped by the unique index, and one user holds the email
C21_Witness ==
    \E p, q \in Procs :
        /\ p # q
        /\ local[p].op = "signup" /\ local[q].op = "signup"
        /\ local[p].email = local[q].email
        /\ resp[p] = Created
        /\ resp[q] = ServerError
        /\ Cardinality({u \in users : u.email = local[p].email}) = 1

SelfDeleteRefused == Response(400, "Cannot delete your own account", None, None)

\* C22: delete_user called by an admin on their own id is rejected and leaves
\* the user and session tables unchanged, so no delete request of a caller
\* removes the caller's own record
C22_NoSelfDelete ==
    [][\A p \in Procs :
        (local[p].op = "delete_user" /\ Completes(p) /\ local[p].caller # None)
          => LET current_user == local[p].caller[1] IN
             /\ (current_user.role = "admin" /\ local[p].target = current_user.id)
                  => /\ resp'[p] = SelfDeleteRefused
                     /\ users' = users
                     /\ sessions' = sessions
             /\ \A u \in users : u.id = current_user.id => u \in users']_vars

\* the administrator asked for the delete of their own id and is still there
C22_Witness ==
    \E p \in Procs :
        /\ local[p].op = "delete_user"
        /\ local[p].caller = Some(AdminUser)
        /\ local[p].target = AdminUser.id
        /\ resp[p] = SelfDeleteRefused
        /\ AdminUser \in users

\* the endpoints that write to the bucket or sign a write
MutatingEndpoints == {"upload", "delete", "presigned_upload", "create_folder"}

\* C23: for upload, delete, presigned-upload and create-folder, a request the
\* permission check or the path-scope check refuses makes no call that changes
\* the bucket or signs against it: the key set and the signed keys stay as they were
C23_GuardsFirst ==
    [][(fresp = None /\ fresp' # None
        /\ fresp'[1].endpoint \in MutatingEndpoints
        /\ fresp'[1].status \in {401, 403})
         => (store' = store /\ signed' = signed)]_vars

\* an editor confined to another subtree asked for the delete of an object
\* that exists; the request was refused and the object is still there
C23_Witness ==
    /\ fresp # None
    /\ fresp[1].endpoint = "delete"
    /\ fresp[1].status = 403
    /\ freq.user[1].role = "editor"
    /\ freq.path \in store
    /\ store = StoredKeys

\* C24: for every max_keys >= 1 and every bucket, list_with_folders reads at
\* most 50 pages and returns at most max_keys items, folders and files together
C24_ListBounded ==
    (fresp # None /\ fresp[1].endpoint = "S3Client.list_with_folders")
      => /\ fresp[1].pages <= MaxPagesCap
         /\ Len(fresp[1].folders) + Len(fresp[1].files) <= freq.max_keys

\* the boundary of a restriction: R, surrounding whitespace and trailing
\* separators aside, followed by the separator
Boundary(R) == rstrip(strip(R), "/") \o Slash

\* C25: for a non-admin user with a non-empty restriction R, every key the
\* flat listing list_files returns, for any prefix it accepts, lies under the
\* boundary R + "/"; no key of a sibling subtree is returned
C25_ListingContained ==
    ( /\ fresp # None
      /\ fresp[1].endpoint = "list_files"
      /\ fresp[1].status = 200
      /\ freq.user[1].role # "admin"
      /\ strip(RestrictionOf(freq)) # <<>> )
    => \A key \in fresp[1].listed : startswith(key, Boundary(RestrictionOf(freq)))

\* the endpoints that hand a single key to the store
DirectKeyEndpoints == {"download", "delete", "presigned_upload", "upload"}

\* C26: for a non-admin user with a non-empty restriction R, whenever download,
\* delete, presigned-upload or upload passes the scope check, the very key
\* handed to the store equals R or starts with R + "/"
C26_CheckedKeyIsUsedKey ==
    ( /\ fresp # None
      /\ fresp[1].endpoint \in DirectKeyEndpoints
      /\ fresp[1].ok
      /\ fresp[1].key # None
      /\ freq.user[1].role # "admin"
      /\ strip(RestrictionOf(freq)) # <<>> )
    => LET R   == rstrip(strip(RestrictionOf(freq)), "/")
           key == fresp[1].key[1]
       IN  key = R \/ startswith(key, R \o Slash)

\* C27: every successful refresh(T) stores and returns a refresh token
\* different from T, also in the clock second in which T was issued
C27_RotationChangesToken ==
    [][\A p \in Procs :
        RefreshSucceeds(p)
          => /\ resp'[p][1].refresh_token # local[p].tok
             /\ \A s \in sessions' :
                   s.id = local[p].sess[1].id => s.refresh_token # local[p].tok[1]]_vars

\* C30: in every reachable state the expires_at of a session row is not
\* earlier than the exp claim of the row's refresh token
C30_ExpiryOrder ==
    \A s \in sessions : s.expires_at >= s.refresh_token.exp * TicksPerSec

\* p's login is with the password of an active user
GoodLogin(p) ==
    \E u \in users :
        /\ u.email = local[p].email
        /\ u.hashed_password = get_password_hash(local[p].password)
        /\ u.is_active

\* C29: a login with correct credentials for an active user always creates a
\* session and returns both tokens, however many sessions the user holds and
\* also when another login of the user was issued in the same clock second; it
\* leaves every session row there was unchanged
C29_LoginNeverBlocked ==
    [][\A p \in Procs :
        /\ (local[p].op = "login" /\ Completes(p)
             /\ (pc[p] \in {"l_commit", "l_refresh"} \/ GoodLogin(p)))
              => /\ resp'[p][1].status = 200
                 /\ resp'[p][1].access_token # None
                 /\ resp'[p][1].refresh_token # None
        /\ (pc[p] = "l_commit" /\ pc'[p] # "l_commit")
              => /\ sessions \subseteq sessions'
                 /\ Cardinality(sessions') = Cardinality(sessions) + 1]_vars

\* p's refresh ends in a failure other than the removal of an expired row
RefreshFails(p) ==
    /\ local[p].op = "refresh"
    /\ Completes(p)
    /\ resp'[p][1].status # 200
    /\ pc[p] # "r_delete"

\* p's refresh ends, and its token was refused for its owner before, is still
\* held by an unexpired row and decodes, and the owner of the row is active
RefusedTokenUsable(p) ==
    /\ local[p].op = "refresh"
    /\ Completes(p)
    /\ local[p].tok[1] \in refused
    /\ decode_token(local[p].tok[1], now) # None
    /\ \E s \in sessions :
          /\ s.refresh_token = local[p].tok[1]
          /\ ~(s.expires_at < now)
          /\ \E u \in users : u.id = s.user_id /\ u.is_active

\* a failed refresh of p changes no session row and no user
FailedRefreshFrame(p) ==
    RefreshFails(p) => (sessions' = sessions /\ users' = users)

\* C28: a refresh that fails (other than by removing an expired row) leaves
\* every session row and every user as it was; a token refused because its
\* owner was inactive is not consumed: its refresh succeeds once the owner is
\* active again and the token is unexpired
C28_FailedRefreshNoEffect ==
    [][\A p \in Procs :
        /\ FailedRefreshFrame(p)
        /\ RefusedTokenUsable(p) => resp'[p][1].status = 200]_vars

====
